---- MODULE Spec2Model ----
(***************************************************************************)
(* Model of the Cuckoo sandbox service (src/cuckoo/cuckoo.py): one job,    *)
(* run by Cuckoo.execute, against a sandbox whose replies are chosen       *)
(* nondeterministically.  A step of the model is one network request of    *)
(* the job: the request, its reply, and the code that runs until the next  *)
(* request (or the end of execute).  The functions that issue no request   *)
(* themselves are operators on the configuration c of the running job;    *)
(* the @retry decorators of the retrying library are the operator          *)
(* Retrying.                                                               *)
(***************************************************************************)
EXTENDS Integers, Sequences, FiniteSets, TLC

VARIABLES
    stack,        \* call stack, innermost frame last
    sig,          \* what the top frame sees: a call, a returned value, an exception
    cuckoo_task,  \* self.cuckoo_task (CuckooTask)
    file_res,     \* titles of the sections of self.file_res
    request,      \* the kind of file execute was called with
    outcome,      \* how execute ended
    backend,      \* tasks that exist on the sandbox
    hist,         \* history of the job's requests and replies
    api_report,   \* the raw report handed to generate_al_result (cuckooresult.py)
    al_result,    \* the sections generate_al_result has added
    gen,          \* where generate_al_result stands, and how it ended
    args,         \* the arguments of a function that is run on its own
    local         \* the local variables of that function, its position and its result

vars ==
    <<stack, sig, cuckoo_task, file_res, request, outcome, backend, hist, api_report, al_result, gen,
      args, local>>

(***************************************************************************)
(* Constants of the program.                                               *)
(***************************************************************************)
GUEST_VM_START_TIMEOUT == 75

None == 0

ChainException == {"RecoverableError"}

FileKinds == {"supported", "unsupported_ext", "no_ext"}

NetworkFns ==
    {"cuckoo_query_machines", "cuckoo_submit_file", "cuckoo_query_task", "cuckoo_query_report",
     "cuckoo_query_pcap", "cuckoo_delete_task"}

(***************************************************************************)
(* Values passed between frames.                                           *)
(***************************************************************************)
Call == [k |-> "call", s |-> "", n |-> 0, m |-> "", guest |-> "", status |-> "", errs |-> 0]

Ret(s, n) == [k |-> "ret", s |-> s, n |-> n, m |-> "", guest |-> "", status |-> "", errs |-> 0]

TaskInfo(rid, guest, status, errs) ==
    [k |-> "ret", s |-> "task", n |-> rid, m |-> "", guest |-> guest, status |-> status, errs |-> errs]

Exc(cls, msg) == [k |-> "exc", s |-> cls, n |-> 0, m |-> msg, guest |-> "", status |-> "", errs |-> 0]

Frame(fn, arg, fmt) == [fn |-> fn, lbl |-> "start", att |-> 1, arg |-> arg, fmt |-> fmt, pend |-> Call]

Top(c) == c.stack[Len(c.stack)]

Below(c) == SubSeq(c.stack, 1, Len(c.stack) - 1)

\* the configuration of the running job
Cfg ==
    [stack |-> stack, sig |-> sig, task |-> cuckoo_task, file_res |-> file_res,
     request |-> request, outcome |-> outcome, hist |-> hist]

Running(fn) == Len(stack) > 0 /\ stack[Len(stack)].fn = fn /\ sig.k = "call"

(***************************************************************************)
(* The retrying library, as configured by each @retry decorator.           *)
(***************************************************************************)
_exclude_chain_ex(ex) == ex \notin ChainException

_retry_on_none(result) == result.s = "None"

\* variant: cuckoo_submit_file gives up after 2 attempts
stop_max_attempt_number_SubmitTwice(fn) ==
    CASE fn = "cuckoo_submit" -> 3
      [] fn = "cuckoo_poll_started" -> GUEST_VM_START_TIMEOUT
      [] fn = "cuckoo_submit_file" -> 2
      [] fn = "cuckoo_query_report" -> 5
      [] fn = "cuckoo_query_task" -> 3
      [] fn = "cuckoo_delete_task" -> 2
      [] fn = "cuckoo_query_machines" -> 6
      [] OTHER -> None

stop_max_attempt_number(fn) ==
    CASE fn = "cuckoo_submit" -> 3
      [] fn = "cuckoo_poll_started" -> GUEST_VM_START_TIMEOUT
      [] fn = "cuckoo_submit_file" -> 3
      [] fn = "cuckoo_query_report" -> 5
      [] fn = "cuckoo_query_task" -> 3
      [] fn = "cuckoo_delete_task" -> 2
      [] fn = "cuckoo_query_machines" -> 6
      [] OTHER -> None

retry_on_exception(fn, ex) ==
    CASE fn \in {"cuckoo_submit", "cuckoo_poll_report"} -> _exclude_chain_ex(ex)
      [] fn = "cuckoo_query_report" -> ex # "MissingCuckooReportException"
      [] OTHER -> TRUE

retry_on_result(fn, result) ==
    CASE fn \in {"cuckoo_poll_started", "cuckoo_poll_report", "cuckoo_query_task"} -> _retry_on_none(result)
      [] OTHER -> FALSE

should_reject(fn, attempt) ==
    IF attempt.k = "exc" THEN retry_on_exception(fn, attempt.s) ELSE retry_on_result(fn, attempt)

\* variant: one attempt more than stop_max_attempt_number
stop_OneMore(fn, attempt_number) ==
    stop_max_attempt_number(fn) # None /\ attempt_number > stop_max_attempt_number(fn)

stop(fn, attempt_number) ==
    stop_max_attempt_number(fn) # None /\ attempt_number >= stop_max_attempt_number(fn)

\* attempt_number += 1; a decorator without stop_max_attempt_number never
\* reads the number, and only whether it is odd or even is kept
NextAttempt(fn, attempt_number) ==
    IF stop_max_attempt_number(fn) = None THEN 3 - attempt_number ELSE attempt_number + 1

\* Retrying.call: the decorated function on top of the stack ends an attempt
\* with the result `attempt`: the result is accepted, or the attempts are
\* used up, or the function is called again.
Retrying(c, attempt) ==
    IF ~should_reject(Top(c).fn, attempt)
    THEN [c EXCEPT !.stack = Below(c), !.sig = attempt]
    ELSE IF stop(Top(c).fn, Top(c).att)
         THEN [c EXCEPT !.stack = Below(c),
                        !.sig = IF attempt.k = "exc" THEN attempt ELSE Exc("RetryError", "RetryError")]
         ELSE [c EXCEPT !.stack = Append(Below(c), [Top(c) EXCEPT !.lbl = "start",
                                                                 !.att = NextAttempt(Top(c).fn, @),
                                                                 !.pend = Call]),
                        !.sig = Call]

CallFrom(c, lbl, pend, fn, arg, fmt) ==
    [c EXCEPT !.stack = Append(Append(Below(c), [Top(c) EXCEPT !.lbl = lbl, !.pend = pend]), Frame(fn, arg, fmt)),
              !.sig = Call]

HasTaskId(c) == c.task.created /\ c.task.id # None

\* if self.cuckoo_task and self.cuckoo_task.id is not None:
\*     self.cuckoo_delete_task(self.cuckoo_task.id)
\* followed by a raise (or return) of `then`
DeleteThen(c, then) ==
    IF HasTaskId(c)
    THEN CallFrom(c, "del", then, "cuckoo_delete_task", c.task.id, "")
    ELSE Retrying(c, then)

\* back from that delete: its exception propagates, else `then` happens
AfterDelete(c) == Retrying(c, IF c.sig.k = "exc" THEN c.sig ELSE Top(c).pend)

(***************************************************************************)
(* generate_random_words(1) + "." + file_ext: the submitted name is 0, the  *)
(* generated names are 1 and 2, and a generated name differs from the      *)
(* name it replaces.                                                       *)
(***************************************************************************)
generate_random_words(file) == IF file = 1 THEN 2 ELSE 1

(***************************************************************************)
(* cuckoo_poll_started, @retry(stop_max_attempt_number=                    *)
(*     GUEST_VM_START_TIMEOUT, retry_on_result=_retry_on_none)             *)
(***************************************************************************)
poll_started_result(c, task_info) ==
    CASE task_info.k = "exc" -> task_info
      [] task_info.s = "None" -> Ret("missing", 0)
      [] task_info.s = "emptystr" -> Exc("Exception", "AttributeError")
      [] task_info.s = "emptydict" ->
            IF c.task.id # None THEN Ret("None", 0) ELSE Ret("started", 0)
      [] task_info.n # c.task.id -> Ret("None", 0)
      [] task_info.guest = "starting" -> Ret("None", 0)
      [] OTHER -> Ret("started", 0)

cuckoo_poll_started(c) ==
    IF c.sig.k = "call"
    THEN CallFrom(c, "query_task", Call, "cuckoo_query_task", c.task.id, "")
    ELSE Retrying(c, poll_started_result(c, c.sig))

(***************************************************************************)
(* cuckoo_poll_report, @retry(wait_fixed=CUCKOO_POLL_DELAY * 1000,         *)
(*     retry_on_result=_retry_on_none, retry_on_exception=_exclude_chain_ex)*)
(***************************************************************************)
BackendErrors(n) == [i \in 1..n |-> "backend error"]

poll_report_status_Completed(c, task_info) ==
    CASE task_info.k = "exc" -> task_info
      [] task_info.s \in {"None", "emptydict"} -> Ret("missing", 0)
      [] task_info.s = "emptystr" -> Exc("Exception", "AttributeError")
      [] task_info.n # c.task.id -> Ret("None", 0)
      [] task_info.status = "failed_analysis" -> Ret(task_info.status, 0)
      [] task_info.status \in {"completed", "reported"} -> Ret("query_report", 0)
      [] OTHER -> Ret("None", 0)

poll_report_status(c, task_info) ==
    CASE task_info.k = "exc" -> task_info
      [] task_info.s \in {"None", "emptydict"} -> Ret("missing", 0)
      [] task_info.s = "emptystr" -> Exc("Exception", "AttributeError")
      [] task_info.n # c.task.id -> Ret("None", 0)
      [] task_info.status = "failed_analysis" -> Ret(task_info.status, 0)
      [] task_info.status = "completed" -> Ret("None", 0)
      [] task_info.status = "reported" -> Ret("query_report", 0)
      [] OTHER -> Ret("None", 0)

cuckoo_poll_report(c) ==
    CASE c.sig.k = "call" ->
            CallFrom(c, "query_task", Call, "cuckoo_query_task", c.task.id, "")
      [] Top(c).lbl = "query_task" ->
            LET status == poll_report_status(c, c.sig)
            IN CASE status.s = "query_report" ->
                      CallFrom(c, "query_report", Call, "cuckoo_query_report", c.task.id, "json")
                 [] status.s = "failed_analysis" ->
                      Retrying([c EXCEPT !.task.errors = @ \o BackendErrors(c.sig.errs)], status)
                 [] OTHER -> Retrying(c, status)
      [] c.sig.k = "exc" ->
            Retrying(c, IF c.sig.s = "MissingCuckooReportException" THEN Ret("missing_report", 0) ELSE c.sig)
      [] OTHER ->
            Retrying([c EXCEPT !.task.report = IF c.sig.s = "data" THEN "dict" ELSE "None"],
                     IF c.sig.s = "data" THEN Ret("reported", 0) ELSE Ret("None", 0))

(***************************************************************************)
(* cuckoo_submit, @retry(retry_on_exception=_exclude_chain_ex,             *)
(*                       stop_max_attempt_number=3)                        *)
(***************************************************************************)
\* the status the polls leave in cuckoo_submit: "raise" when the poll's
\* exception is no RetryError and leaves cuckoo_submit
poll_status(res) ==
    CASE res.k = "ret" -> res.s
      [] res.s = "RetryError" -> "None"
      [] OTHER -> "raise"

submit_status(c, status) ==
    CASE status = "raise" -> Retrying(c, c.sig)
      [] status = "None" ->
            DeleteThen(c, Exc("RecoverableError", "Timed out while waiting for cuckoo to analyze file."))
      [] status = "missing" ->
            DeleteThen(c, Exc("RecoverableError", "Task went missing while waiting for cuckoo to analyze file."))
      [] status = "stopped" ->
            DeleteThen(c, Exc("RecoverableError", "Service has been stopped while waiting for cuckoo to analyze file."))
      [] status = "missing_report" ->
            Retrying([c EXCEPT !.task.file = generate_random_words(@)],
                     Exc("Exception", "Retrying after missing_report status"))
      [] OTHER -> Retrying(c, Ret("None", 0))

cuckoo_submit(c) ==
    CASE c.sig.k = "call" ->
            CallFrom([c EXCEPT !.hist.reportHist = "none"], "submit_file", Call, "cuckoo_submit_file", 0, "")
      [] Top(c).lbl = "submit_file" /\ c.sig.k = "exc" ->
            DeleteThen([c EXCEPT !.task.errors = Append(@, "Error submitting to Cuckoo")],
                       Exc("RecoverableError", "Unable to submit to Cuckoo"))
      [] Top(c).lbl = "submit_file" /\ c.sig.n = 0 ->
            Retrying([c EXCEPT !.task.errors = Append(@, "Failed to get task for submitted file.")],
                     Ret("None", 0))
      [] Top(c).lbl = "submit_file" ->
            CallFrom([c EXCEPT !.task.id = c.sig.n], "poll_started", Call, "cuckoo_poll_started", 0, "")
      [] Top(c).lbl = "poll_started" /\ poll_status(c.sig) = "started" ->
            CallFrom(c, "poll_report", Call, "cuckoo_poll_report", 0, "")
      [] Top(c).lbl \in {"poll_started", "poll_report"} -> submit_status(c, poll_status(c.sig))
      [] OTHER -> AfterDelete(c)

(***************************************************************************)
(* CuckooTask.__init__                                                     *)
(***************************************************************************)
CuckooTask(created) ==
    [created |-> created, id |-> None, file |-> 0, report |-> "None", errors |-> <<>>]

(***************************************************************************)
(* execute                                                                 *)
(***************************************************************************)
Raise(c, e) ==
    [c EXCEPT !.stack = <<>>, !.sig = Call, !.outcome = [k |-> "raised", cls |-> e.s, msg |-> e.m]]

Returned(c) ==
    [c EXCEPT !.stack = <<>>, !.sig = Call, !.outcome = [k |-> "returned", cls |-> "", msg |-> ""]]

\* except Exception as e: (line 528) delete the task, then raise
Except(c, e) ==
    IF HasTaskId(c)
    THEN CallFrom(c, "del532", e, "cuckoo_delete_task", c.task.id, "")
    ELSE Raise(c, e)

\* a delete inside the outer try, followed by a raise of e
DeleteThenRaise(c, e) ==
    IF HasTaskId(c)
    THEN CallFrom(c, "del_inner", e, "cuckoo_delete_task", c.task.id, "")
    ELSE Except(c, e)

\* an exception raised while the AL result is generated (lines 373-385)
GenerateExcept(c, e) ==
    DeleteThenRaise(c, IF e.s = "RecoverableError"
                       THEN e
                       ELSE Exc("CuckooProcessingException", "Unable to generate cuckoo al report"))

\* self.check_dropped(request, self.cuckoo_task.id)
check_dropped(c) == CallFrom(c, "check_dropped", Call, "cuckoo_query_report", c.task.id, "dropped")

\* the last statement of execute (lines 538-539)
DeleteAndExit(c) ==
    IF HasTaskId(c)
    THEN CallFrom(c, "del539", Call, "cuckoo_delete_task", c.task.id, "")
    ELSE Returned(c)

\* variant: the pcap is fetched whatever the sections are
check_pcap_Always(c) == CallFrom(c, "check_pcap", Call, "cuckoo_query_pcap", c.task.id, "")

\* self.check_pcap(self.cuckoo_task.id)
check_pcap(c) ==
    IF "Network Activity" \in c.file_res
    THEN CallFrom(c, "check_pcap", Call, "cuckoo_query_pcap", c.task.id, "")
    ELSE DeleteAndExit(c)

NoScan_NoExtension(kind) == kind = "no_ext"

\* lines 252-273: the type is not identified, and the name has no extension
\* or one that is not supported
NoScan(kind) == kind \in {"unsupported_ext", "no_ext"}

execute(c) ==
    LET lbl == Top(c).lbl
        raised == c.sig.k = "exc"
    IN CASE lbl = "start" ->
              IF NoScan(c.request)
              THEN Returned(c)
              ELSE CallFrom([c EXCEPT !.task = CuckooTask(TRUE)], "query_machines", Call,
                            "cuckoo_query_machines", 0, "")
         [] lbl = "query_machines" ->
              IF raised THEN Except(c, c.sig) ELSE CallFrom(c, "submit", Call, "cuckoo_submit", 0, "")
         [] lbl = "submit" ->
              CASE raised -> Except(c, c.sig)
                [] c.task.report = "None" ->
                     DeleteThenRaise(c, Exc("RecoverableError", "Unable to retrieve cuckoo report."))
                [] OTHER -> [c EXCEPT !.stack[Len(c.stack)].lbl = "generate_al_result", !.sig = Call]
         [] lbl = "del370" ->
              GenerateExcept(c, IF raised THEN c.sig
                                ELSE Exc("CuckooProcessingException", "Cuckoo was unable to process this file."))
         [] lbl = "del_inner" -> Except(c, IF raised THEN c.sig ELSE Top(c).pend)
         [] lbl = "tar_report" -> IF raised THEN Except(c, c.sig) ELSE check_dropped(c)
         [] lbl = "check_dropped" -> IF raised THEN Except(c, c.sig) ELSE check_pcap(c)
         [] lbl = "check_pcap" ->
              IF raised THEN Except(c, c.sig) ELSE DeleteAndExit(c)
         [] lbl = "del532" -> Raise(c, IF raised THEN c.sig ELSE Top(c).pend)
         [] OTHER -> IF raised THEN Raise(c, c.sig) ELSE Returned(c)

(***************************************************************************)
(* The code between two network requests.                                  *)
(***************************************************************************)
Stops(c) ==
    \/ Len(c.stack) = 0
    \/ c.sig.k = "call" /\ (Top(c).fn \in NetworkFns \/ Top(c).lbl = "generate_al_result")

Step(c) ==
    CASE Top(c).fn = "execute" -> execute(c)
      [] Top(c).fn = "cuckoo_submit" -> cuckoo_submit(c)
      [] Top(c).fn = "cuckoo_poll_started" -> cuckoo_poll_started(c)
      [] Top(c).fn = "cuckoo_poll_report" -> cuckoo_poll_report(c)
      [] OTHER -> AfterDelete(c)

\* each configuration is computed once, then handed on
RECURSIVE Run(_)
Run(c) == IF Stops(c) THEN c ELSE CHOOSE r \in {Run(d) : d \in {Step(c)}} : TRUE

Resume(c) ==
    \E r \in {Run(d) : d \in {c}} :
       /\ stack' = r.stack
       /\ sig' = r.sig
       /\ cuckoo_task' = r.task
       /\ file_res' = r.file_res
       /\ request' = r.request
       /\ outcome' = r.outcome
       /\ hist' = r.hist
       /\ UNCHANGED <<api_report, al_result, gen, args, local>>

(***************************************************************************)
(* The sandbox's replies.  A task the sandbox does not hold is answered    *)
(* with an error status only.                                              *)
(***************************************************************************)
OtherTask == -1

Reply(code, body) == [code |-> code, body |-> body, rid |-> 0, guest |-> "", status |-> "", errs |-> 0]

Failures == {Reply("timeout", ""), Reply("connerr", ""), Reply("404", ""), Reply("500", "")}

\* the task statuses of the sandbox, each with the guest status it has then
TaskStates ==
    {<<"pending", "none">>, <<"running", "starting">>, <<"running", "running">>,
     <<"completed", "stopped">>, <<"reported", "stopped">>, <<"failed_analysis", "stopped">>}

MachinesReplies == {Reply("timeout", ""), Reply("connerr", ""), Reply("500", ""), Reply("200", "machines")}

SubmitReplies ==
    {Reply("timeout", ""), Reply("connerr", ""), Reply("500", ""), Reply("400", ""),
     Reply("200", "task_id"), Reply("200", "no_task_id")}

TaskReplies(task_id) ==
    Failures \cup
    IF task_id \in backend
    THEN {Reply("200", b) : b \in {"badjson", "notask", "emptystr", "emptydict"}} \cup
         {[code |-> "200", body |-> "task", rid |-> r, guest |-> ts[2], status |-> ts[1],
           errs |-> IF ts[1] = "failed_analysis" THEN 1 ELSE 0] :
             r \in {task_id, OtherTask}, ts \in TaskStates}
    ELSE {}

ReportReplies(task_id) ==
    Failures \cup
    IF task_id \in backend
    THEN {Reply("200", b) : b \in {"badjson", "empty", "data"}}
    ELSE {}

PcapReplies(task_id) ==
    Failures \cup IF task_id \in backend THEN {Reply("200", "data")} ELSE {}

DeleteReplies(task_id) ==
    {Reply("timeout", ""), Reply("connerr", ""), Reply("500", "")} \cup
    IF task_id \in backend THEN {Reply("200", "")} ELSE {Reply("404", "")}

(***************************************************************************)
(* History of the job, kept for the properties.                            *)
(***************************************************************************)
Merge(old, kind) == IF old \in {"none", kind} THEN kind ELSE "mixed"

\* the same over the unfinished statuses, keeping the last one
MergeUnfinished(old, kind) == IF old = "mixed" THEN "mixed" ELSE kind

StatusKind(task_id, reply) ==
    CASE reply.code = "404" \/ (reply.code = "200" /\ reply.body = "notask") -> "notask"
      [] reply.code = "200" /\ reply.body = "task" /\ reply.rid = task_id /\ reply.guest = "starting" -> "starting"
      [] reply.code = "200" /\ reply.body = "task" /\ reply.rid # task_id -> "mismatch"
      [] OTHER -> "mixed"

Unfinished == {"pending", "running", "completed"}

\* the reply carries the task of the identifier, with the status reported
Reported(task_id, reply) ==
    reply.code = "200" /\ reply.body = "task" /\ reply.rid = task_id /\ reply.status = "reported"

ReportKind(task_id, reply) ==
    CASE /\ reply.code = "200"
         /\ reply.body = "task"
         /\ reply.rid = task_id
         /\ reply.status \in Unfinished -> reply.status
      [] StatusKind(task_id, reply) = "notask" -> "notask"
      [] OTHER -> "mixed"

\* requests.ConnectionError, once a submission has returned an identifier
Unreachable(reply) == reply.code = "connerr" /\ hist.obtained # {}

(***************************************************************************)
(* cuckoo_delete_task, @retry(stop_max_attempt_number=2)                   *)
(***************************************************************************)
\* variant: the identifier is kept whatever the reply
IdAfterDelete_Kept(code, id) == id

\* self.cuckoo_task.id = None, on a reply of 200 only
IdAfterDelete(code, id) == IF code = "200" THEN None ELSE id

cuckoo_delete_task ==
    /\ Running("cuckoo_delete_task")
    /\ \E reply \in DeleteReplies(Top(Cfg).arg) :
        /\ backend' = IF reply.code = "200" THEN backend \ {Top(Cfg).arg} ELSE backend
        /\ Resume(Retrying([Cfg EXCEPT !.hist.delIssued = @ \cup {Top(Cfg).arg},
                                       !.hist.unreachable = Unreachable(reply),
                                       !.task.id = IdAfterDelete(reply.code, @)],
                           CASE reply.code = "timeout" ->
                                  Exc("Exception", "Cuckoo timed out after while trying to delete task")
                             [] reply.code = "connerr" ->
                                  Exc("RecoverableError", "Unable to reach the Cuckoo nest while trying to delete task")
                             [] OTHER -> Ret("None", 0)))

(***************************************************************************)
(* cuckoo_query_machines, @retry(stop_max_attempt_number=6)                *)
(***************************************************************************)
MachinesKind(reply) ==
    CASE reply.code = "200" -> "ok"
      [] reply.code = "connerr" -> "connerr"
      [] reply.code = "timeout" -> "mixed"
      [] OTHER -> "busy"

cuckoo_query_machines ==
    /\ Running("cuckoo_query_machines")
    /\ \E reply \in MachinesReplies :
        /\ Resume(Retrying([Cfg EXCEPT !.hist.machHist = IF reply.code = "200" THEN "ok"
                                                          ELSE Merge(@, MachinesKind(reply))],
                           CASE reply.code = "timeout" ->
                                  Exc("Exception", "Cuckoo timed out after while trying to query machines")
                             [] reply.code = "connerr" ->
                                  Exc("RecoverableError", "Unable to reach the Cuckoo nest while trying to query machines")
                             [] reply.code # "200" -> Exc("CuckooVMBusyException", "")
                             [] OTHER -> Ret("machines", 0)))
    /\ UNCHANGED backend

(***************************************************************************)
(* cuckoo_submit_file, @retry(stop_max_attempt_number=3)                   *)
(***************************************************************************)
NewTaskId == Cardinality(hist.obtained) + 1

submit_file_reply(c, reply) ==
    CASE reply.code = "timeout" ->
            DeleteThen(c, Exc("Exception", "Cuckoo timed out after while trying to submit a file"))
      [] reply.code = "connerr" ->
            DeleteThen(c, Exc("RecoverableError", "Unable to reach the Cuckoo nest while trying to submit a file"))
      [] reply.code = "500" ->
            Retrying([c EXCEPT !.task.file = generate_random_words(@)],
                     Exc("Exception", "Retrying after 500 error"))
      [] reply.code # "200" -> Retrying(c, Ret("None", 0))
      [] reply.body = "task_id" -> Retrying(c, Ret("task_id", NewTaskId))
      [] OTHER -> Retrying(c, Ret("None", 0))

cuckoo_submit_file ==
    /\ Running("cuckoo_submit_file")
    /\ \E reply \in SubmitReplies :
        /\ backend' = IF reply.body = "task_id" THEN backend \cup {NewTaskId} ELSE backend
        /\ Resume(submit_file_reply(
                    [Cfg EXCEPT !.hist.posts = IF reply.code = "500" /\ hist.postHist # "mixed" THEN @ + 1 ELSE 0,
                                !.hist.postHist = Merge(@, IF reply.code = "500" THEN "all500" ELSE "mixed"),
                                !.hist.obtained = IF reply.body = "task_id" THEN @ \cup {NewTaskId} ELSE @,
                                !.hist.missing = FALSE,
                                !.hist.unreachable = FALSE],
                    reply))

(***************************************************************************)
(* cuckoo_query_task, @retry(stop_max_attempt_number=3,                    *)
(*                           retry_on_result=_retry_on_none)               *)
(***************************************************************************)
query_task_reply(c, reply) ==
    CASE reply.code = "timeout" ->
            DeleteThen(c, Exc("Exception", "Cuckoo timed out after while trying to query the task"))
      [] reply.code = "connerr" ->
            Retrying(c, Exc("RecoverableError", "Unable to reach the Cuckoo nest while trying to query the task"))
      [] reply.code # "200" -> Retrying(c, Ret("None", 0))
      [] reply.body = "badjson" -> Retrying(c, Exc("Exception", "ValueError"))
      [] reply.body = "notask" -> Retrying(c, Ret("None", 0))
      [] reply.body = "task" -> Retrying(c, TaskInfo(reply.rid, reply.guest, reply.status, reply.errs))
      [] OTHER -> Retrying(c, Ret(reply.body, 0))

cuckoo_query_task ==
    /\ Running("cuckoo_query_task")
    /\ \E reply \in TaskReplies(Top(Cfg).arg) :
        /\ Resume(query_task_reply(
                    [Cfg EXCEPT !.hist.statusHist = Merge(@, StatusKind(Top(Cfg).arg, reply)),
                                !.hist.reportHist = IF stack[Len(stack) - 1].fn = "cuckoo_poll_report"
                                                    THEN MergeUnfinished(@, ReportKind(Top(Cfg).arg, reply))
                                                    ELSE @,
                                !.hist.reported = /\ stack[Len(stack) - 1].fn = "cuckoo_poll_report"
                                                  /\ Reported(cuckoo_task.id, reply),
                                !.hist.unreachable = Unreachable(reply)],
                    reply))
    /\ UNCHANGED backend

(***************************************************************************)
(* cuckoo_query_report, @retry(stop_max_attempt_number=5, retry_on_        *)
(* exception=lambda x: not isinstance(x, MissingCuckooReportException))    *)
(***************************************************************************)
query_report_reply(c, reply) ==
    CASE reply.code = "timeout" ->
            DeleteThen(c, Exc("Exception", "Cuckoo timed out after while trying to query the report"))
      [] reply.code = "connerr" ->
            Retrying(c, Exc("RecoverableError", "Unable to reach the Cuckoo nest while trying to query the report"))
      [] reply.code = "404" ->
            DeleteThen(c, Exc("MissingCuckooReportException", "Task or report not found"))
      [] reply.code # "200" -> Retrying(c, Ret("None", 0))
      [] Top(c).fmt = "json" /\ reply.body = "badjson" -> Retrying(c, Exc("Exception", "UnboundLocalError"))
      [] reply.body = "empty" -> DeleteThen(c, Exc("Exception", "Empty report data"))
      [] OTHER -> Retrying(c, Ret("data", 0))

cuckoo_query_report ==
    /\ Running("cuckoo_query_report")
    /\ \E reply \in ReportReplies(Top(Cfg).arg) :
        /\ Resume(query_report_reply(
                    [Cfg EXCEPT !.hist.missing = IF Top(Cfg).fmt = "json" /\ reply.code = "404" THEN TRUE ELSE @,
                                !.hist.unreachable = Unreachable(reply)],
                    reply))
    /\ UNCHANGED backend

(***************************************************************************)
(* cuckoo_query_pcap, @retry(wait_fixed=2000)                              *)
(***************************************************************************)
query_pcap_reply(c, reply) ==
    CASE reply.code = "timeout" ->
            DeleteThen(c, Exc("Exception", "Cuckoo timed out after while trying to query the pcap"))
      [] reply.code = "connerr" ->
            Retrying(c, Exc("RecoverableError", "Unable to reach the Cuckoo nest while trying to query the pcap"))
      [] reply.code # "200" -> Retrying(c, Ret("None", 0))
      [] OTHER -> Retrying(c, Ret("data", 0))

cuckoo_query_pcap ==
    /\ Running("cuckoo_query_pcap")
    /\ \E reply \in PcapReplies(Top(Cfg).arg) :
        /\ Resume(query_pcap_reply([Cfg EXCEPT !.hist.unreachable = Unreachable(reply)], reply))
    /\ UNCHANGED backend

(***************************************************************************)
(* generate_al_result, as execute sees it (lines 361-372), and the         *)
(* generate_report option (line 391)                                       *)
(***************************************************************************)
GenerateResults == {"sections", "network sections", "False", "raise"}

generated(c, success, generate_report) ==
    CASE success = "raise" -> GenerateExcept(c, Exc("Exception", "generate_al_result"))
      [] success = "False" ->
            IF HasTaskId(c)
            THEN CallFrom(c, "del370", Call, "cuckoo_delete_task", c.task.id, "")
            ELSE GenerateExcept(c, Exc("CuckooProcessingException", "Cuckoo was unable to process this file."))
      [] OTHER ->
            LET r == [c EXCEPT !.file_res = IF success = "network sections"
                                            THEN {"Analysis Information", "Network Activity"}
                                            ELSE {"Analysis Information"}]
            IN IF generate_report
               THEN CallFrom(r, "tar_report", Call, "cuckoo_query_report", r.task.id, "all")
               ELSE check_dropped(r)

generate_al_result ==
    /\ Running("execute")
    /\ \E success \in GenerateResults, generate_report \in BOOLEAN :
        Resume(generated(Cfg, success, generate_report))
    /\ UNCHANGED backend

(***************************************************************************)
(* The job: the service framework calls execute once.                      *)
(***************************************************************************)
execute_request ==
    /\ outcome.k = "idle"
    /\ \E kind \in FileKinds :
        Resume([Cfg EXCEPT !.stack = <<Frame("execute", 0, "")>>, !.sig = Call, !.request = kind,
                           !.outcome.k = "running"])
    /\ UNCHANGED backend

\* a report without the key 'behavior' (or with an empty one)
NoBehavior == [present |-> FALSE, processes |-> FALSE, written |-> 0, keys |-> FALSE, clsids |-> "none"]

\* a report without the key 'network' (or with an empty one)
NoNetwork == [present |-> FALSE, hasHttp |-> FALSE, http |-> {}, domains |-> FALSE]

\* no report is being normalized
NoReport ==
    [info |-> FALSE, debug |-> "absent", behavior |-> NoBehavior, network |-> NoNetwork,
     signatures |-> "absent", droidmon |-> "absent"]

Idle == [pc |-> "idle", executed |-> TRUE, ret |-> "none"]

\* no function is run on its own
NoCall == [fn |-> "none"]

Init ==
    /\ api_report = NoReport
    /\ al_result = <<>>
    /\ gen = Idle
    /\ args = NoCall
    /\ local = NoCall
    /\ stack = <<>>
    /\ sig = Call
    /\ cuckoo_task = CuckooTask(FALSE)
    /\ file_res = {}
    /\ request = "none"
    /\ outcome = [k |-> "idle", cls |-> "", msg |-> ""]
    /\ backend = {}
    /\ hist = [machHist |-> "none",    \* the replies to the machine queries: none yet, all busy, all
                                       \* connectivity failures, mixed failures, or ok after a 200
               obtained |-> {},        \* the task identifiers the submissions returned
               delIssued |-> {},       \* the identifiers a delete request was issued for
               postHist |-> "none",    \* the submission replies: none yet, all 500, or mixed
               posts |-> 0,            \* the number of submissions, while all were answered 500
               statusHist |-> "none",  \* the status replies: none yet, all starting, all no task, all
                                       \* for another task, or mixed
               reportHist |-> "none",  \* the status replies of this round's poll-for-completion: none
                                       \* yet, all unfinished or no task (the last kind is kept), or mixed
               reported |-> FALSE,     \* the latest status reply, one of poll-for-completion,
                                       \* carried the job's task identifier and the status reported
               unreachable |-> FALSE,  \* the job has obtained a task identifier and its latest
                                       \* request, one for a task, met a connectivity failure
               missing |-> FALSE]      \* the JSON report was answered 404 and the file is not posted again yet

Next ==
    \/ execute_request
    \/ cuckoo_query_machines
    \/ cuckoo_submit_file
    \/ cuckoo_query_task
    \/ cuckoo_query_report
    \/ cuckoo_query_pcap
    \/ cuckoo_delete_task
    \/ generate_al_result

Spec == Init /\ [][Next]_vars

\* execute runs on one thread, which goes on as long as it can
FairSpec == Spec /\ WF_vars(Next)

Done == outcome.k \in {"returned", "raised"}

(***************************************************************************)
(* generate_al_result (src/cuckoo/cuckooresult.py), a function of the raw  *)
(* report.  A report is described by what the function reads of it:        *)
(*   info        the key 'info' is there                                   *)
(*   debug       absent, without errors, or with errors                    *)
(*   behavior    processes: the key 'processes' is there; written: the     *)
(*               number of summary.regkey_written entries; keys: summary   *)
(*               has registry keys (keys, regkey_opened); clsids: the      *)
(*               class identifiers found resolve to nothing, to a set on   *)
(*               the whitelist (benign), or to another set                 *)
(*   network     hasHttp: the key 'http' is there; http: the kinds of its  *)
(*               flows, one to the domain evil.example, one without the    *)
(*               field 'host'; domains: 'domains' lists evil.example       *)
(*   signatures  absent, one signature with a name, one without            *)
(*   droidmon    absent, with 'sms', or with one 'httpConnections' entry   *)
(*               (a request to evil.example)                               *)
(***************************************************************************)
MaxEntries == 2

result_limit == 25

FlowKinds == {"domain", "nohost"}

Behaviors ==
    {NoBehavior} \cup
    [present : {TRUE}, processes : BOOLEAN, written : 0..MaxEntries, keys : BOOLEAN,
     clsids : {"none", "benign", "other"}]

Networks ==
    {NoNetwork} \cup
    {n \in [present : {TRUE}, hasHttp : BOOLEAN, http : SUBSET FlowKinds, domains : BOOLEAN] :
        ~n.hasHttp => n.http = {}}

Reports ==
    [info : BOOLEAN, debug : {"absent", "no_errors", "errors"}, behavior : Behaviors, network : Networks,
     signatures : {"absent", "named", "noname"}, droidmon : {"absent", "sms", "http"}]

ResultSection(title, lines, subs, tags) == [title |-> title, lines |-> lines, subs |-> subs, tags |-> tags]

JobVars == <<stack, sig, cuckoo_task, file_res, request, outcome, backend, hist>>

FnVars == <<args, local>>

\* an exception leaves generate_al_result
Raised(ex) == [pc |-> "done", executed |-> gen.executed, ret |-> ex]

\* cuckoo.whitelist and cuckoo.clsids are not part of the sources: the
\* whitelist holds the hash of the benign set of class identifiers and the
\* domain microsoft.com, and neither evil.example nor its address
wlist_check_hash(hash) == hash \in {"benign", "md5:notepad"}

wlist_check_domain(domain) == domain = "microsoft.com"

\* lines 44-64
analysis_information ==
    /\ gen.pc = "info"
    /\ al_result' = IF api_report.info
                    THEN Append(al_result, ResultSection("Analysis Information", 5, <<>>, {}))
                    ELSE al_result
    /\ gen' = [gen EXCEPT !.pc = "debug"]
    /\ UNCHANGED <<api_report, JobVars, FnVars>>

\* process_debug (lines 180-198)
process_debug ==
    /\ gen.pc = "debug"
    /\ al_result' = IF api_report.debug = "errors"
                    THEN Append(al_result, ResultSection("Analysis Errors", 1, <<>>, {}))
                    ELSE al_result
    /\ gen' = [gen EXCEPT !.pc = "behavior"]
    /\ UNCHANGED <<api_report, JobVars, FnVars>>

\* process_behavior (lines 223-318): the exception it raises, or the
\* sections it adds and the value it returns
behavior_result(behavior) ==
    LET q_res == IF behavior.written > result_limit THEN result_limit ELSE behavior.written
        tags == (IF behavior.clsids # "none" THEN {<<"dynamic.ssdeep.cls_ids", "hash">>} ELSE {}) \cup
                (IF behavior.keys THEN {<<"dynamic.ssdeep.regkeys", "hash">>} ELSE {})
        res_sec == IF behavior.written > 0
                   THEN <<ResultSection("Registry Keys Written (Limit 25)", q_res, <<>>, tags)>>
                   ELSE <<>>
        clsid_res == IF behavior.clsids # "none" THEN <<ResultSection("CLSIDs", 1, <<>>, {})>> ELSE <<>>
    IN CASE ~behavior.processes -> [ret |-> "TypeError", sections |-> <<>>, executed |-> TRUE]
         [] res_sec = <<>> /\ (behavior.clsids # "none" \/ behavior.keys) ->
                [ret |-> "AttributeError", sections |-> <<>>, executed |-> TRUE]
         [] OTHER -> [ret |-> "True", sections |-> res_sec \o clsid_res,
                      executed |-> ~wlist_check_hash(behavior.clsids)]

process_behavior ==
    /\ gen.pc = "behavior"
    /\ IF api_report.behavior.present
       THEN LET r == behavior_result(api_report.behavior)
            IN /\ al_result' = al_result \o r.sections
               /\ gen' = IF r.ret = "True"
                         THEN [gen EXCEPT !.pc = "droidmon", !.executed = r.executed]
                         ELSE Raised(r.ret)
       ELSE /\ al_result' = al_result
            /\ gen' = [gen EXCEPT !.pc = "droidmon"]
    /\ UNCHANGED <<api_report, JobVars, FnVars>>

\* process_droidmon (lines 109-177), then the branch on executed (line 82)
process_droidmon ==
    /\ gen.pc = "droidmon"
    /\ LET next == IF gen.executed THEN "network" ELSE "noexec"
       IN CASE api_report.droidmon = "http" /\ ~api_report.network.hasHttp ->
                   /\ gen' = Raised("KeyError")
                   /\ UNCHANGED <<api_report, al_result>>
            [] api_report.droidmon = "http" ->
                   /\ api_report' = [api_report EXCEPT !.network.http = @ \cup {"domain"}]
                   /\ gen' = [gen EXCEPT !.pc = next]
                   /\ UNCHANGED al_result
            [] api_report.droidmon = "sms" ->
                   /\ al_result' = Append(al_result, ResultSection("SMS Activity", 1, <<>>, {}))
                   /\ gen' = [gen EXCEPT !.pc = next]
                   /\ UNCHANGED api_report
            [] OTHER ->
                   /\ gen' = [gen EXCEPT !.pc = next]
                   /\ UNCHANGED <<api_report, al_result>>
    /\ UNCHANGED <<JobVars, FnVars>>

\* process_network (lines 433-565): the exception it raises, or the
\* section it adds
network_result(network) ==
    LET domain_flows == network.domains /\ ~wlist_check_domain("evil.example") /\ "domain" \in network.http
    IN IF "nohost" \in network.http
       THEN [ret |-> "TypeError", sections |-> <<>>]
       ELSE [ret |-> "True",
             sections |-> <<ResultSection("Network Activity", 0,
                                          IF domain_flows THEN <<"Domain Flows">> ELSE <<>>,
                                          IF domain_flows
                                          THEN {<<"network.domain", "evil.example">>,
                                                <<"network.uri", "http://evil.example/">>}
                                          ELSE {})>>]

process_network ==
    /\ gen.pc = "network"
    /\ IF api_report.network.present
       THEN LET r == network_result(api_report.network)
            IN /\ al_result' = al_result \o r.sections
               /\ gen' = IF r.ret = "True" THEN [gen EXCEPT !.pc = "signatures"] ELSE Raised(r.ret)
       ELSE /\ al_result' = al_result
            /\ gen' = [gen EXCEPT !.pc = "signatures"]
    /\ UNCHANGED <<api_report, JobVars, FnVars>>

\* process_signatures (lines 321-368), then return True
process_signatures ==
    /\ gen.pc = "signatures"
    /\ CASE api_report.signatures = "noname" ->
                /\ gen' = Raised("TypeError")
                /\ UNCHANGED al_result
         [] api_report.signatures = "named" ->
                /\ al_result' = Append(al_result, ResultSection("Signatures", 0, <<"Signature: name">>, {}))
                /\ gen' = [gen EXCEPT !.pc = "done", !.ret = "True"]
         [] OTHER ->
                /\ gen' = [gen EXCEPT !.pc = "done", !.ret = "True"]
                /\ UNCHANGED al_result
    /\ UNCHANGED <<api_report, JobVars, FnVars>>

\* lines 87-93: the file did not execute
noexec ==
    /\ gen.pc = "noexec"
    /\ al_result' = Append(al_result, ResultSection("Notes", 1, <<>>, {}))
    /\ gen' = [gen EXCEPT !.pc = "done", !.ret = "True"]
    /\ UNCHANGED <<api_report, JobVars, FnVars>>

\* generate_al_result is called with any report
ResultInit ==
    /\ api_report \in Reports
    /\ al_result = <<>>
    /\ gen = [pc |-> "info", executed |-> TRUE, ret |-> "none"]
    /\ args = NoCall
    /\ local = NoCall
    /\ stack = <<>>
    /\ sig = Call
    /\ cuckoo_task = CuckooTask(FALSE)
    /\ file_res = {}
    /\ request = "none"
    /\ outcome = [k |-> "idle", cls |-> "", msg |-> ""]
    /\ backend = {}
    /\ hist = [machHist |-> "none", obtained |-> {}, delIssued |-> {}, postHist |-> "none", posts |-> 0,
               statusHist |-> "none", reportHist |-> "none", missing |-> FALSE,
               unreachable |-> FALSE, reported |-> FALSE]

ResultNext ==
    \/ analysis_information
    \/ process_debug
    \/ process_behavior
    \/ process_droidmon
    \/ process_network
    \/ process_signatures
    \/ noexec

ResultSpec == ResultInit /\ [][ResultNext]_vars

(***************************************************************************)
(* process_network (src/cuckoo/cuckooresult.py) run on its own, on the     *)
(* flow records of a report.  The records carry the fields Cuckoo writes; *)
(* a report holds at most MaxRecords records, at most MaxFlows of a kind.  *)
(***************************************************************************)
MaxRecords == 4

MaxFlows == 2

GuestIP == "192.168.56.101"

\* the strings of the reports and the protocol names, in the order in which
\* python compares strings
Lexicographic ==
    <<"1.2.3.4", "127.0.0.1", "192.168.56.101", "5.6.7.8", "bad.example", "dns", "evil.example", "http",
      "https", "icmp", "microsoft.com", "smtp", "tcp", "udp">>

\* re.match(r"^[0-9.]+$", hst), on the strings of the reports
IsIP(hst) == hst \in {"1.2.3.4", "127.0.0.1", "192.168.56.101", "5.6.7.8"}

\* cuckoo.whitelist is not part of the sources: the address of the local
\* host is on the whitelist of addresses
wlist_check_ip(ip) == ip = "127.0.0.1"

Universe ==
    [hosts    |-> {"1.2.3.4", "127.0.0.1", "192.168.56.101", "5.6.7.8"},
     udp      |-> {[dst |-> "127.0.0.1", dport |-> 53]},
     tcp      |-> [dst : {"1.2.3.4", "5.6.7.8"}, dport : {80}],
     smtp     |-> {[dst |-> "1.2.3.4", raw |-> "HELO"]},
     icmp     |-> {[dst |-> "192.168.56.101", type |-> 8]},
     dns      |-> {[request |-> "evil.example", answers |-> <<>>],
                   [request |-> "evil.example", answers |-> <<[data |-> "127.0.0.1", type |-> "A"]>>],
                   [request |-> "bad.example", answers |-> <<[data |-> "5.6.7.8", type |-> "A"]>>]},
     domains  |-> [domain : {"bad.example", "evil.example", "microsoft.com"}, ip : {""}],
     http     |-> {[host |-> "evil.example", port |-> 80, uri |-> "http://evil.example/a", method |-> "GET"],
                   [host |-> "evil.example", port |-> 8080, uri |-> "http://evil.example:8080/a",
                    method |-> "GET"],
                   [host |-> "1.2.3.4", port |-> 80, uri |-> "http://1.2.3.4/a", method |-> "GET"]},
     http_ex  |-> {[host |-> "evil.example", dport |-> 80, uri |-> "/a", method |-> "GET"],
                   [host |-> "evil.example", dport |-> 8080, uri |-> "/a", method |-> "GET"],
                   [host |-> "1.2.3.4", dport |-> 80, uri |-> "/a", method |-> "GET"]},
     https    |-> {[host |-> "evil.example", port |-> 443, uri |-> "https://evil.example/a",
                    method |-> "GET"],
                   [host |-> "microsoft.com", port |-> 443, uri |-> "https://microsoft.com/a",
                    method |-> "GET"]},
     https_ex |-> {[host |-> "evil.example", dport |-> 443, uri |-> "/a", method |-> "GET"]}]

Kinds == DOMAIN Universe

RECURSIVE Total(_, _)
Total(n, kinds) ==
    IF kinds = {} THEN 0 ELSE LET k == CHOOSE k \in kinds : TRUE IN n[k] + Total(n, kinds \ {k})

\* how many records of each kind a report holds
Lengths == {n \in [Kinds -> 0..MaxFlows] : Total(n, Kinds) <= MaxRecords}

Range(s) == {s[i] : i \in 1..Len(s)}

In(x, s) == \E i \in 1..Len(s) : s[i] = x

RECURSIVE Flatten(_)
Flatten(ss) == IF ss = <<>> THEN <<>> ELSE Head(ss) \o Flatten(Tail(ss))

Rank(name) == CHOOSE i \in 1..Len(Lexicographic) : Lexicographic[i] = name

sorted_Descending(S) ==
    CHOOSE s \in [1..Cardinality(S) -> S] : \A i, j \in 1..Cardinality(S) : i < j => Rank(s[i]) > Rank(s[j])

\* sorted(d), d a dictionary with the keys S
sorted(S) ==
    CHOOSE s \in [1..Cardinality(S) -> S] : \A i, j \in 1..Cardinality(S) : i < j => Rank(s[i]) < Rank(s[j])

add_unique_Always(flows, flow_data) == Append(flows, flow_data)

\* lines 378-379
add_unique(flows, flow_data) == IF In(flow_data, flows) THEN flows ELSE Append(flows, flow_data)

\* the loop of parse_protocol_data (lines 373-379); a defaultdict is the
\* function from its keys to their lists
RECURSIVE group_flows(_, _, _)
group_flows(flow_data, group_by, group_fields) ==
    IF flow_data = <<>> THEN [g \in {} |-> <<>>]
    ELSE LET protocol_data == group_flows(SubSeq(flow_data, 1, Len(flow_data) - 1), group_by, group_fields)
             flow == flow_data[Len(flow_data)]
             group == flow[group_by]
             data == [field \in group_fields |-> flow[field]]
             old == IF group \in DOMAIN protocol_data THEN protocol_data[group] ELSE <<>>
         IN [g \in DOMAIN protocol_data \cup {group} |->
                IF g = group THEN add_unique(old, data) ELSE protocol_data[g]]

parse_protocol_data_Reversed(flow_data, group_by, group_fields) ==
    group_flows([i \in 1..Len(flow_data) |-> flow_data[Len(flow_data) + 1 - i]], group_by, group_fields)

parse_protocol_data(flow_data, group_by, group_fields) == group_flows(flow_data, group_by, group_fields)

\* lines 418-424: the record of the extended capture, in the format of the
\* canonical one
ex_flow(protocol, host, flow, port) ==
    [uri    |-> IF flow.dport = port
                THEN protocol \o "://" \o host \o flow.uri
                ELSE protocol \o "://" \o host \o ":" \o ToString(flow.dport) \o flow.uri,
     port   |-> flow.dport,
     method |-> flow.method]

\* lines 426-428
RECURSIVE extend(_, _)
extend(flows, ex) == IF ex = <<>> THEN flows ELSE extend(add_unique(flows, Head(ex)), Tail(ex))

add_ex_data_Concat(proto_data, proto_ex_data, protocol, port) ==
    LET formatted == [host \in DOMAIN proto_ex_data |->
                         [i \in 1..Len(proto_ex_data[host]) |->
                             ex_flow(protocol, host, proto_ex_data[host][i], port)]]
    IN [host \in DOMAIN proto_data \cup DOMAIN formatted |->
           IF host \notin DOMAIN formatted THEN proto_data[host]
           ELSE IF host \in DOMAIN proto_data THEN proto_data[host] \o formatted[host]
           ELSE formatted[host]]

\* _add_ex_data (lines 414-430)
add_ex_data(proto_data, proto_ex_data, protocol, port) ==
    LET formatted == [host \in DOMAIN proto_ex_data |->
                         [i \in 1..Len(proto_ex_data[host]) |->
                             ex_flow(protocol, host, proto_ex_data[host][i], port)]]
    IN [host \in DOMAIN proto_data \cup DOMAIN formatted |->
           IF host \notin DOMAIN formatted THEN proto_data[host]
           ELSE IF host \in DOMAIN proto_data THEN extend(proto_data[host], formatted[host])
           ELSE formatted[host]]

\* lines 445-464: the flows of a report, grouped by peer
Correlate(net) ==
    [udp     |-> parse_protocol_data(net.udp, "dst", {"dport"}),
     tcp     |-> parse_protocol_data(net.tcp, "dst", {"dport"}),
     smtp    |-> parse_protocol_data(net.smtp, "dst", {"raw"}),
     dns     |-> parse_protocol_data(net.dns, "request", {"answers"}),
     icmp    |-> parse_protocol_data(net.icmp, "dst", {"type"}),
     domains |-> parse_protocol_data(net.domains, "domain", {}),
     http    |-> add_ex_data(parse_protocol_data(net.http, "host", {"port", "uri", "method"}),
                             parse_protocol_data(net.http_ex, "host", {"dport", "uri", "method"}),
                             "http", 80),
     https   |-> add_ex_data(parse_protocol_data(net.https, "host", {"port", "uri", "method"}),
                             parse_protocol_data(net.https_ex, "host", {"dport", "uri", "method"}),
                             "https", 443)]

\* the variables of execute and of generate_al_result, and their values when
\* neither runs
RestVars == <<stack, sig, cuckoo_task, file_res, request, outcome, backend, hist, api_report, al_result, gen>>

NoJob ==
    /\ api_report = NoReport
    /\ al_result = <<>>
    /\ gen = Idle
    /\ stack = <<>>
    /\ sig = Call
    /\ cuckoo_task = CuckooTask(FALSE)
    /\ file_res = {}
    /\ request = "none"
    /\ outcome = [k |-> "idle", cls |-> "", msg |-> ""]
    /\ backend = {}
    /\ hist = [machHist |-> "none", obtained |-> {}, delIssued |-> {}, postHist |-> "none", posts |-> 0,
               statusHist |-> "none", reportHist |-> "none", missing |-> FALSE,
               unreachable |-> FALSE, reported |-> FALSE]

\* lines 441-464
correlate_flows ==
    /\ local.pc = "correlate"
    /\ local' = [local EXCEPT !.pc = "map", !.hosts = args.network.hosts,
                              !.flows = Correlate(args.network)]
    /\ UNCHANGED <<args, RestVars>>

\* lines 470-473: the addresses among the peers that the host list lacks
missing_hosts(hosts, flows) ==
    {hst \in UNION {DOMAIN flows[proto] : proto \in {"udp", "tcp", "http", "https", "icmp", "smtp"}} :
        hst \notin Range(hosts) /\ IsIP(hst)}

skipped_GuestOnly(host, guest_ip) == host = guest_ip

\* line 477, line 491
skipped(host, guest_ip) == host = guest_ip \/ wlist_check_ip(host)

\* add_host_flows (lines 568-574) for the hosts of lines 476-484, and lines
\* 486-493
host_flows(hosts, flows, guest_ip) ==
    LET protocols(host) == {p \in {"udp", "tcp", "smtp", "icmp", "http", "https"} : host \in DOMAIN flows[p]}
        added == {host \in Range(hosts) : ~skipped(host, guest_ip) /\ protocols(host) # {}}
    IN IF added # {}
       THEN [there |-> TRUE, map |-> [host \in added |-> [p \in protocols(host) |-> flows[p][host]]]]
       ELSE IF hosts # <<>>
       THEN [there |-> TRUE,
             map |-> [host \in {h \in Range(hosts) : ~skipped(h, guest_ip)} |-> [p \in {} |-> <<>>]]]
       ELSE [there |-> FALSE, map |-> [host \in {} |-> <<>>]]

\* add_domain_flows (lines 577-583) for the domains of lines 495-500
domain_flows(flows) ==
    LET protocols(domain) == {p \in {"dns", "http", "https"} : domain \in DOMAIN flows[p]}
        added == {domain \in DOMAIN flows.domains : ~wlist_check_domain(domain) /\ protocols(domain) # {}}
    IN [there |-> added # {}, map |-> [domain \in added |-> [p \in protocols(domain) |-> flows[p][domain]]]]

\* lines 470-500
map_flows ==
    /\ local.pc = "map"
    /\ LET hosts == local.hosts \o sorted(missing_hosts(local.hosts, local.flows))
       IN local' = [local EXCEPT !.pc = "ip_flows", !.hosts = hosts,
                                 !.result_map = [host_flows   |-> host_flows(hosts, local.flows, args.guest_ip),
                                                 domain_flows |-> domain_flows(local.flows)]]
    /\ UNCHANGED <<args, RestVars>>

\* the tags network.uri of the flows of a protocol (lines 514-518, 545-549)
uri_tags(protocol, flows) ==
    IF protocol \in {"http", "https"}
    THEN [i \in 1..Len(flows) |-> <<"network.uri", flows[i].uri>>]
    ELSE <<>>

\* dict_list_to_fixedwidth_str_list (lines 383-409) gives one line for each
\* dictionary; a line of the output is the protocol, the peer and that
\* dictionary
Lines(protocol, peer, dict_list) ==
    [i \in 1..Len(dict_list) |-> [protocol |-> protocol, peer |-> peer, flow |-> dict_list[i]]]

\* lines 507-522 for one host: its tags and its lines
host_output(host, protocols) ==
    LET ps == sorted(DOMAIN protocols)
    IN [tags  |-> <<<<"network.ip", host>>>> \o
                  Flatten([i \in 1..Len(ps) |-> uri_tags(ps[i], protocols[ps[i]])]),
        lines |-> Flatten([i \in 1..Len(ps) |-> Lines(ps[i], host, protocols[ps[i]])])]

\* lines 502-526
ip_flows ==
    /\ local.pc = "ip_flows"
    /\ LET flows == local.result_map.host_flows
           hs == sorted(DOMAIN flows.map)
           out == [i \in 1..Len(hs) |-> host_output(hs[i], flows.map[hs[i]])]
       IN local' =
              IF flows.there
              THEN [local EXCEPT !.pc = "domain_flows",
                                 !.tags = Flatten([i \in 1..Len(hs) |-> out[i].tags]),
                                 !.subs = <<[title |-> "IP Flows",
                                             body |-> Flatten([i \in 1..Len(hs) |-> out[i].lines])]>>]
              ELSE [local EXCEPT !.pc = "domain_flows"]
    /\ UNCHANGED <<args, RestVars>>

\* lines 551-555: the answers of the last flow that has some; flow_lines
\* stays None when no flow has any
dns_answers(flows) ==
    LET answered == {i \in 1..Len(flows) : flows[i].answers # <<>>}
    IN IF answered = {} THEN <<>> ELSE flows[CHOOSE i \in answered : \A j \in answered : j <= i].answers

flow_lines_None(protocol, flows) == protocol = "dns" /\ \A i \in 1..Len(flows) : flows[i].answers = <<>>

\* lines 539-558 for one domain
domain_output(domain, protocols) ==
    LET ps == sorted(DOMAIN protocols)
    IN [tags   |-> <<<<"network.domain", domain>>>> \o
                   Flatten([i \in 1..Len(ps) |-> uri_tags(ps[i], protocols[ps[i]])]),
        lines  |-> Flatten([i \in 1..Len(ps) |->
                               Lines(ps[i], domain,
                                     IF ps[i] = "dns" THEN dns_answers(protocols[ps[i]])
                                     ELSE protocols[ps[i]])]),
        raises |-> \E p \in DOMAIN protocols : flow_lines_None(p, protocols[p])]

\* lines 528-565
report_domain_flows ==
    /\ local.pc = "domain_flows"
    /\ LET flows == local.result_map.domain_flows
           ds == sorted(DOMAIN flows.map)
           out == [i \in 1..Len(ds) |-> domain_output(ds[i], flows.map[ds[i]])]
           tags == local.tags \o Flatten([i \in 1..Len(ds) |-> out[i].tags])
           subs == IF flows.there
                   THEN local.subs \o <<[title |-> "Domain Flows",
                                         body |-> Flatten([i \in 1..Len(ds) |-> out[i].lines])]>>
                   ELSE local.subs
       IN local' =
              IF \E i \in 1..Len(ds) : out[i].raises
              THEN [local EXCEPT !.pc = "done", !.ret = "TypeError"]
              ELSE [local EXCEPT !.pc = "done", !.ret = "None", !.tags = tags, !.subs = subs,
                                 !.al_result = <<[title |-> "Network Activity", tags |-> tags,
                                                  subs |-> subs]>>]
    /\ UNCHANGED <<args, RestVars>>

\* process_network is called with the flow records of any report
NetInit ==
    /\ \E n \in Lengths :
          args \in [fn : {"process_network"}, guest_ip : {GuestIP},
                    network : [hosts    : [1..n.hosts -> Universe.hosts],
                               udp      : [1..n.udp -> Universe.udp],
                               tcp      : [1..n.tcp -> Universe.tcp],
                               smtp     : [1..n.smtp -> Universe.smtp],
                               icmp     : [1..n.icmp -> Universe.icmp],
                               dns      : [1..n.dns -> Universe.dns],
                               domains  : [1..n.domains -> Universe.domains],
                               http     : [1..n.http -> Universe.http],
                               http_ex  : [1..n.http_ex -> Universe.http_ex],
                               https    : [1..n.https -> Universe.https],
                               https_ex : [1..n.https_ex -> Universe.https_ex]]]
    /\ local = [fn |-> "process_network", pc |-> "correlate", hosts |-> <<>>, flows |-> <<>>,
                result_map |-> <<>>, tags |-> <<>>, subs |-> <<>>, al_result |-> <<>>, ret |-> "none"]
    /\ NoJob

NetNext ==
    \/ correlate_flows
    \/ map_flows
    \/ ip_flows
    \/ report_domain_flows

NetSpec == NetInit /\ [][NetNext]_vars

(***************************************************************************)
(* The findings of the behavioural summary: the loop of process_behavior   *)
(* over result_queries (lines 248-288), run on its own.  The behaviour has *)
(* the list 'processes' that Cuckoo writes, no class identifier and no     *)
(* opened registry key; at most MaxCategories categories of its summary    *)
(* have items, and the i-th item of a category is the text of i.           *)
(***************************************************************************)
MaxCategories == 2

\* result_queries (lines 250-262), in the order of the dictionary; a limit
\* of None is None, a tag type of None is "None"
result_queries ==
    <<[q_name |-> "directory_created", title |-> "Directories Created", limit |-> result_limit, tag_type |-> "None"],
      [q_name |-> "directory_removed", title |-> "Directories Deleted", limit |-> result_limit, tag_type |-> "None"],
      [q_name |-> "dll_loaded", title |-> "Modules Loaded", limit |-> result_limit, tag_type |-> "None"],
      [q_name |-> "file_deleted", title |-> "Files Deleted", limit |-> result_limit, tag_type |-> "None"],
      [q_name |-> "file_exists", title |-> "Check File: Exists", limit |-> result_limit, tag_type |-> "None"],
      [q_name |-> "file_failed", title |-> "Check File: Failed", limit |-> result_limit, tag_type |-> "None"],
      [q_name |-> "regkey_written", title |-> "Registry Keys Written", limit |-> result_limit, tag_type |-> "None"],
      [q_name |-> "command_line", title |-> "Commands", limit |-> None, tag_type |-> "None"],
      [q_name |-> "downloads_file", title |-> "Files Downloads", limit |-> None, tag_type |-> "None"],
      [q_name |-> "file_written", title |-> "Files Written", limit |-> None, tag_type |-> "file.path"],
      [q_name |-> "wmi_query", title |-> "WMI Queries", limit |-> None, tag_type |-> "None"],
      [q_name |-> "mutex", title |-> "Mutexes", limit |-> None, tag_type |-> "dynamic.mutex"]>>

QNames == {result_queries[i].q_name : i \in 1..Len(result_queries)}

\* the numbers of items of a category that has some
ItemCounts == {1, result_limit, result_limit + 1}

Items(n) == [i \in 1..n |-> ToString(i)]

\* assemblyline.common.str_utils.safe_str leaves printable text as it is
safe_str(s) == s

query_lines_All(q_res, limit) == q_res

\* lines 266-267: q_res[:limit]
query_lines(q_res, limit) ==
    IF limit # None THEN SubSeq(q_res, 1, IF Len(q_res) < limit THEN Len(q_res) ELSE limit) ELSE q_res

\* line 268
query_title(title, limit) == IF limit # None THEN title \o " (Limit " \o ToString(limit) \o ")" ELSE title

\* lines 270-274
query_section(q, q_res) ==
    LET lines == [i \in 1..Len(q_res) |-> safe_str(q_res[i])]
    IN [q_name |-> q.q_name, title |-> query_title(q.title, q.limit), lines |-> lines,
        tags |-> IF q.tag_type # "None" THEN [i \in 1..Len(lines) |-> <<q.tag_type, lines[i]>>] ELSE <<>>]

\* lines 263-288: one turn of the loop
result_query ==
    /\ local.fn = "process_behavior"
    /\ local.pc = "queries"
    /\ LET q == result_queries[local.i]
           q_res == query_lines(args.behavior.summary[q.q_name], q.limit)
           next == IF local.i = Len(result_queries) THEN "return" ELSE "queries"
       IN local' =
              IF args.behavior.summary[q.q_name] # <<>>
              THEN [local EXCEPT !.pc = next, !.i = @ + 1,
                                 !.al_result = Append(@, query_section(q, q_res)),
                                 !.extracted = IF q.q_name = "command_line" THEN @ + Len(q_res) ELSE @]
              ELSE [local EXCEPT !.pc = next, !.i = @ + 1]
    /\ UNCHANGED <<args, RestVars>>

\* lines 290-318, without class identifiers and registry keys
return_executed ==
    /\ local.fn = "process_behavior"
    /\ local.pc = "return"
    /\ local' = [local EXCEPT !.pc = "done", !.ret = "True"]
    /\ UNCHANGED <<args, RestVars>>

\* process_behavior is called with any summary
BehaviorInit ==
    /\ \E cats \in {c \in SUBSET QNames : Cardinality(c) <= MaxCategories} :
          \E n \in [cats -> ItemCounts] :
              args = [fn |-> "process_behavior",
                      behavior |-> [summary |-> [q \in QNames |-> IF q \in cats THEN Items(n[q]) ELSE <<>>]]]
    /\ local = [fn |-> "process_behavior", pc |-> "queries", i |-> 1, al_result |-> <<>>, extracted |-> 0,
                ret |-> "none"]
    /\ NoJob

BehaviorNext ==
    \/ result_query
    \/ return_executed

BehaviorSpec == BehaviorInit /\ [][BehaviorNext]_vars

(***************************************************************************)
(* process_signatures (lines 321-368) run on its own, on at most MaxSigs   *)
(* signatures.  What it reads of the categories, families, actor and marks *)
(* of a signature goes to the lines and tags of the section, not to its    *)
(* subsections, and is left out.                                           *)
(***************************************************************************)
MaxSigs == 3

\* line 325
skipped_sigs == {"dead_host", "has_authenticode", "network_icmp", "network_http", "allocates_rwx", "has_pdb"}

\* the names of the reported signatures
SigNames == {"dead_host", "has_pdb", "dropper", "zeus_unknown"}

\* cuckoo.signatures is not part of the sources: the severity table holds
\* dropper, and a name it does not hold gets 3
check_signature(sig_name) == IF sig_name = "dropper" THEN 2 ELSE 3

add_signature_KnownOnly(subs, signature) ==
    IF signature.name \in skipped_sigs \/ check_signature(signature.name) = 3 THEN subs
    ELSE Append(subs, [title |-> "Signature: " \o signature.name, heuristic |-> check_signature(signature.name),
                       body |-> signature.description])

\* lines 330-344: the subsections of sigs_res after one signature
add_signature(subs, signature) ==
    IF signature.name \in skipped_sigs THEN subs
    ELSE Append(subs, [title |-> "Signature: " \o signature.name, heuristic |-> check_signature(signature.name),
                       body |-> signature.description])

\* lines 323-325
signatures_section ==
    /\ local.fn = "process_signatures"
    /\ local.pc = "start"
    /\ local' = [local EXCEPT !.pc = IF Len(args.sigs) > 0 THEN "sigs" ELSE "done"]
    /\ UNCHANGED <<args, RestVars>>

\* lines 329-366: one turn of the loop
signature ==
    /\ local.fn = "process_signatures"
    /\ local.pc = "sigs"
    /\ local' = [local EXCEPT !.pc = IF local.i = Len(args.sigs) THEN "add" ELSE "sigs", !.i = @ + 1,
                              !.subs = add_signature(@, args.sigs[local.i])]
    /\ UNCHANGED <<args, RestVars>>

\* line 368
add_signatures ==
    /\ local.fn = "process_signatures"
    /\ local.pc = "add"
    /\ local' = [local EXCEPT !.pc = "done",
                              !.al_result = <<[title |-> "Signatures", subs |-> local.subs]>>]
    /\ UNCHANGED <<args, RestVars>>

\* process_signatures is called with any list of signatures
SignatureInit ==
    /\ \E n \in 0..MaxSigs :
          args \in [fn : {"process_signatures"},
                    sigs : [1..n -> [name : SigNames, description : {"text"}]]]
    /\ local = [fn |-> "process_signatures", pc |-> "start", i |-> 1, subs |-> <<>>, al_result |-> <<>>]
    /\ NoJob

SignatureNext ==
    \/ signatures_section
    \/ signature
    \/ add_signatures

SignatureSpec == SignatureInit /\ [][SignatureNext]_vars

(***************************************************************************)
(* The pass of execute over the archive of the report (src/cuckoo/         *)
(* cuckoo.py, lines 431-487) and check_dropped (lines 840-886), run on     *)
(* their own.  The archive has at most MaxMembers files, the archive of    *)
(* the dropped files at most MaxDropped; whether the extraction of a file  *)
(* and its submission to the framework succeed is chosen when its turn     *)
(* comes.                                                                  *)
(***************************************************************************)
MaxMembers == 3

MaxDropped == 2

\* the files of the archive that the pass looks at
TarMembers ==
    {[dir |-> "supplementary", suffix |-> "bin"], [dir |-> "memory", suffix |-> "py"],
     [dir |-> "memory", suffix |-> "dmp"], [dir |-> "buffer", suffix |-> "bin"],
     [dir |-> "extracted", suffix |-> "bin"]}

\* lines 434-436, 448-449, 471-473, 477-478: the files in the order of their
\* turns
Turns(tar) ==
    LET of(dir) == SelectSeq([i \in 1..Len(tar) |-> i], LAMBDA i : tar[i].dir = dir)
    IN of("supplementary") \o of("memory") \o of("buffer") \o of("extracted")

\* the file goes to add_supplementary (lines 439, 456), the others to
\* add_extracted (lines 460, 476, 481)
Supplementary(member) == member.dir = "supplementary" \/ (member.dir = "memory" /\ member.suffix = "py")

\* what the framework answers: add_supplementary stores the file or fails;
\* add_extracted stores it, rejects it as too large with the exception of
\* the framework (line 16), or fails otherwise
Answers(member) == IF Supplementary(member) THEN {"ok", "error"} ELSE {"ok", "MaxExtractedExceeded", "error"}

\* lines 437-481 for one file: tar_obj.extract answers extracted, the
\* framework answers answer
member_turn(l, i, member, extracted, answer) ==
    LET tried == [l EXCEPT !.queue = Tail(@), !.tried = @ \cup {i}]
        \* lines 483-487
        except == [tried EXCEPT !.pc = "dropped"]
    IN CASE extracted # "ok" -> except
         [] answer = "ok" -> [tried EXCEPT !.offered = @ \cup {i}, !.stored = @ \cup {i}]
         [] member.dir = "memory" /\ ~Supplementary(member) /\ answer = "MaxFileSizeExceeded" ->
                \* lines 461-468
                [tried EXCEPT !.offered = @ \cup {i},
                              !.file_res = Append(@, [title |-> "Extracted file too large to add", file |-> i])]
         [] answer = "MaxExtractedExceeded" -> [except EXCEPT !.offered = @ \cup {i}, !.rejected = @ \cup {i}]
         [] OTHER -> [except EXCEPT !.offered = @ \cup {i}]

\* lines 431-487: the turn of one file, or the end of the pass
extract_member ==
    /\ local.fn = "extract"
    /\ local.pc = "report"
    /\ IF local.queue = <<>>
       THEN local' = [local EXCEPT !.pc = "dropped"]
       ELSE LET i == Head(local.queue)
            IN \E extracted \in {"ok", "error"}, answer \in Answers(args.tar_report[i]) :
                   local' = member_turn(local, i, args.tar_report[i], extracted, answer)
    /\ UNCHANGED <<args, RestVars>>

\* check_dropped (lines 847-886): the turn of one dropped file, which fails to
\* be extracted or hashed, is skipped (lines 866-876, 877-878), is
\* submitted, or is refused by the framework; or the end of the loop
dropped_member ==
    /\ local.fn = "extract"
    /\ local.pc = "dropped"
    /\ IF local.dropped_tried = args.dropped_tar
       THEN local' = [local EXCEPT !.pc = "done"]
       ELSE \E turn \in {"error", "skipped", "ok", "MaxExtractedExceeded"} :
               local' = IF turn \in {"error", "MaxExtractedExceeded"}
                        THEN [local EXCEPT !.dropped_tried = @ + 1, !.pc = "done"]
                        ELSE [local EXCEPT !.dropped_tried = @ + 1,
                                           !.dropped_stored = IF turn = "ok" THEN @ + 1 ELSE @]
    /\ UNCHANGED <<args, RestVars>>

\* the archives of any report
ArchiveInit ==
    /\ \E n \in 0..MaxMembers :
          args \in [fn : {"extract"}, tar_report : [1..n -> TarMembers], dropped_tar : 0..MaxDropped]
    /\ local = [fn |-> "extract", pc |-> "report", queue |-> Turns(args.tar_report), tried |-> {},
                offered |-> {}, stored |-> {}, rejected |-> {}, file_res |-> <<>>, dropped_tried |-> 0,
                dropped_stored |-> 0]
    /\ NoJob

ArchiveNext ==
    \/ extract_member
    \/ dropped_member

ArchiveSpec == ArchiveInit /\ [][ArchiveNext]_vars

(***************************************************************************)
(* check_dropped on its own (cuckoo.py lines 843-886): the members of the  *)
(* archive of dropped files, one by one.  Every member is a file and is    *)
(* extracted and stored without an error; the errors are the matter of the *)
(* specification above.                                                    *)
(***************************************************************************)
MaxFiles == 3

\* int(self.cfg.get("dedup_similar_percent", 80)), line 203
Thresholds == {60, 80, 100}

\* the submitted file
SubmittedData == "sample"

\* the members of the archive: the name and the bytes
DroppedFiles ==
    {[name |-> "a.exe", data |-> "sample"],
     [name |-> "b.exe", data |-> "sample+"],
     [name |-> "c.exe", data |-> "payload"],
     [name |-> "d.exe", data |-> "payload+"],
     [name |-> "e.exe", data |-> "payload++"],
     [name |-> "desktop.ini", data |-> "payload"],
     [name |-> "g.exe", data |-> "notepad"],
     [name |-> "h_info.txt", data |-> "payload+"]}

\* hashlib.md5(data).hexdigest(): equal bytes, equal digests
md5(data) == "md5:" \o data

\* ssdeep.hash(data)
ssdeep_hash(data) == "3:" \o data

\* ssdeep.compare(h1, h2), a score from 0 to 100: 100 for equal hashes; the
\* scores are not transitive ("payload+" is close to "payload++", less
\* close to "payload", and "payload" and "payload++" have nothing in common)
ssdeep_compare(h1, h2) ==
    CASE h1 = h2 -> 100
      [] {h1, h2} \in {{"3:sample", "3:sample+"}, {"3:payload+", "3:payload++"}} -> 90
      [] {h1, h2} = {"3:payload", "3:payload+"} -> 60
      [] OTHER -> 0

\* cuckoo.whitelist is not part of the sources: one name is on the
\* whitelist of dropped files
wlist_check_dropped(name) == name = "desktop.ini"

\* dropped_name.endswith('_info.txt')
endswith_info_txt(name) == name = "h_info.txt"

skip_file_Above(ssdeep, added_hashes, ssdeep_match_pct) ==
    \E seen_hash \in added_hashes : ssdeep_compare(ssdeep, seen_hash) > ssdeep_match_pct

\* lines 861-865
skip_file(ssdeep, added_hashes, ssdeep_match_pct) ==
    \E seen_hash \in added_hashes : ssdeep_compare(ssdeep, seen_hash) >= ssdeep_match_pct

\* lines 874-882: the file is handed to add_extracted
resubmit(file) ==
    /\ md5(file.data) # md5(SubmittedData)
    /\ ~(wlist_check_hash(md5(file.data)) \/ wlist_check_dropped(file.name) \/ endswith_info_txt(file.name))

\* lines 847-882 for member i of the archive: st holds added_hashes, the
\* members skipped as near copies (skipped) and the members handed to
\* add_extracted (extracted), in their order
dropped_file(st, i, file, deep_scan, ssdeep_match_pct) ==
    IF ~deep_scan /\ skip_file(ssdeep_hash(file.data), st.added_hashes, ssdeep_match_pct)
    THEN [st EXCEPT !.skipped = @ \cup {i}]
    ELSE [added_hashes |-> IF deep_scan THEN st.added_hashes
                           ELSE st.added_hashes \cup {ssdeep_hash(file.data)},
          skipped      |-> st.skipped,
          extracted    |-> IF resubmit(file) THEN Append(st.extracted, i) ELSE st.extracted]

\* line 843
NoDropped == [added_hashes |-> {}, skipped |-> {}, extracted |-> <<>>]

\* the loop of line 847 over the first n members
RECURSIVE dropped_files(_, _, _, _)
dropped_files(files, n, deep_scan, ssdeep_match_pct) ==
    IF n = 0 THEN NoDropped
    ELSE dropped_file(dropped_files(files, n - 1, deep_scan, ssdeep_match_pct), n, files[n], deep_scan,
                      ssdeep_match_pct)

\* one turn of the loop of line 847
next_dropped ==
    /\ local.fn = "check_dropped" /\ local.pc = "files"
    /\ local.i <= Len(args.dropped_tar)
    /\ LET st == dropped_file([added_hashes |-> local.added_hashes, skipped |-> local.skipped,
                               extracted |-> local.extracted],
                              local.i, args.dropped_tar[local.i], args.deep_scan, args.ssdeep_match_pct)
       IN local' = [local EXCEPT !.i = @ + 1, !.added_hashes = st.added_hashes, !.skipped = st.skipped,
                                 !.extracted = st.extracted]
    /\ UNCHANGED <<args, RestVars>>

\* the archive is used up: check_dropped returns
return_dropped ==
    /\ local.fn = "check_dropped" /\ local.pc = "files"
    /\ local.i > Len(args.dropped_tar)
    /\ local' = [local EXCEPT !.pc = "done"]
    /\ UNCHANGED <<args, RestVars>>

\* check_dropped is called in any scan mode, with any threshold, on any
\* archive
DroppedInit ==
    /\ \E n \in 0..MaxFiles :
          args \in [fn : {"check_dropped"}, deep_scan : BOOLEAN, ssdeep_match_pct : Thresholds,
                    dropped_tar : [1..n -> DroppedFiles]]
    /\ local = [fn |-> "check_dropped", pc |-> "files", i |-> 1, added_hashes |-> {}, skipped |-> {},
                extracted |-> <<>>]
    /\ NoJob

DroppedNext ==
    \/ next_dropped
    \/ return_dropped

DroppedSpec == DroppedInit /\ [][DroppedNext]_vars

(***************************************************************************)
(* Properties                                                              *)
(***************************************************************************)
\* a request of one of these functions is about to be issued
Pending(fns) == Len(stack) > 0 /\ stack[Len(stack)].fn \in fns /\ sig.k = "call"

PendingArg == stack[Len(stack)].arg

\* poll-for-completion has been entered in this round of cuckoo_submit
Polled ==
    \/ hist.reportHist # "none"
    \/ \E i \in 1..Len(stack) : stack[i].fn = "cuckoo_poll_report"

\* the rounds of cuckoo_submit so far
SubmitRound ==
    IF \E i \in 1..Len(stack) : stack[i].fn = "cuckoo_submit"
    THEN (CHOOSE f \in {stack[i] : i \in 1..Len(stack)} : f.fn = "cuckoo_submit").att
    ELSE 0

DeleteErrors ==
    {"Cuckoo timed out after while trying to delete task",
     "Unable to reach the Cuckoo nest while trying to delete task"}

\* the name of the file after n renames
NameAfter(n) == IF n = 0 THEN 0 ELSE IF n % 2 = 1 THEN 1 ELSE 2

\* C1: when execute has returned or raised, a delete request has been issued
\* for every task identifier a submission of the job returned.
C1_EveryTaskDeleted == Done => hist.obtained \subseteq hist.delIssued

\* C2: a failed delete is never escalated: execute never ends with the error
\* of a delete request.
C2_DeleteNeverEscalated == outcome.k = "raised" => outcome.msg \notin DeleteErrors

C4_OneLiveTask == Cardinality(backend) <= 1

\* C5: once the delete request has been issued for a task, no status poll and
\* no report fetch is issued for that task.
C5_NoPollAfterDelete ==
    Pending({"cuckoo_query_task", "cuckoo_query_report"}) => PendingArg \notin hist.delIssued

\* C6: a JSON report answered 404 is followed by the rename and the new
\* submission, not by another poll or fetch; there are at most 3 rounds of
\* submission and at most 3 tasks.
C6_MissingReportResubmits ==
    /\ SubmitRound <= 3
    /\ Cardinality(hist.obtained) <= 3
    /\ hist.missing => ~Pending({"cuckoo_query_task", "cuckoo_query_report"})

\* C7: when every submission is answered 500, the file is renamed after each
\* of them, no task identifier is obtained, no status is polled, and execute
\* ends after exactly 3 submissions with the RecoverableError "Unable to
\* submit to Cuckoo".
C7_Submit500 ==
    hist.postHist = "all500" =>
        /\ hist.obtained = {}
        /\ cuckoo_task.id = None
        /\ hist.statusHist = "none"
        /\ ~Polled
        /\ hist.posts <= 3
        /\ cuckoo_task.file = NameAfter(hist.posts)
        /\ Done => /\ hist.posts = 3
                   /\ outcome = [k |-> "raised", cls |-> "RecoverableError",
                                 msg |-> "Unable to submit to Cuckoo"]

C7_Witness == Done /\ hist.postHist = "all500" /\ hist.posts = 3

\* C8: when the status never becomes reported or failed during
\* poll-for-completion, execute ends all the same.
C8_PollingEnds == <>[](hist.reportHist \in Unfinished) => <>Done

\* C9: when every status query of poll-for-guest-start is answered with no
\* task, execute ends with the RecoverableError "Task went missing ...",
\* the delete issued.
C9_MissingTaskAborts ==
    (Done /\ hist.statusHist = "notask") =>
        /\ outcome = [k |-> "raised", cls |-> "RecoverableError",
                      msg |-> "Task went missing while waiting for cuckoo to analyze file."]
        /\ hist.obtained \subseteq hist.delIssued

\* C10: when every status query is answered with guest status starting,
\* poll-for-guest-start makes at most GUEST_VM_START_TIMEOUT rounds in the
\* job, poll-for-completion is never entered, and execute ends with the
\* RecoverableError of the timeout, the delete issued.
C10_GuestStartBounded ==
    hist.statusHist = "starting" =>
        /\ ~Polled
        /\ SubmitRound <= 1
        /\ Done => /\ outcome = [k |-> "raised", cls |-> "RecoverableError",
                                 msg |-> "Timed out while waiting for cuckoo to analyze file."]
                   /\ hist.obtained \subseteq hist.delIssued

\* the job is inside a call of fn
InFn(fn) == \E i \in 1..Len(stack) : stack[i].fn = fn

\* the attempt number of the call the job is in
Attempt == stack[Len(stack)].att

\* the identifier the last submission returned
LatestTask == Cardinality(hist.obtained)

\* a completion poll returned a failed status and the sandbox's errors
\* were appended to the job's error list
FailedStatus == \E i \in 1..Len(cuckoo_task.errors) : cuckoo_task.errors[i] = "backend error"

\* the requests that name a task
TaskFns == {"cuckoo_query_task", "cuckoo_query_report", "cuckoo_query_pcap", "cuckoo_delete_task"}

\* C11: no network call that keeps failing is retried forever: the job does
\* not stay inside cuckoo_query_pcap from some point on.
C11_RetriesEnd == []<>(~InFn("cuckoo_query_pcap"))

\* C12: after a completion poll that returned a failed status, no status
\* poll, report fetch or submission follows, no report is held, and execute
\* ends with the RecoverableError "Unable to retrieve cuckoo report.", the
\* delete of the task issued.
C12_FailedStatusAborts ==
    FailedStatus =>
        /\ ~Pending({"cuckoo_query_task", "cuckoo_query_report", "cuckoo_query_pcap", "cuckoo_submit_file"})
        /\ cuckoo_task.report = "None"
        /\ Done => /\ outcome = [k |-> "raised", cls |-> "RecoverableError",
                                 msg |-> "Unable to retrieve cuckoo report."]
                   /\ LatestTask \in hist.delIssued

\* C13: the machine query is attempted at most 6 times; a submission is
\* issued only after a machine query answered 200; when every machine query
\* failed, execute raises and nothing was submitted.
C13_MachineDiscovery ==
    /\ Pending({"cuckoo_query_machines"}) => Attempt <= 6
    /\ (hist.postHist # "none" \/ InFn("cuckoo_submit")) => hist.machHist = "ok"
    /\ (Done /\ hist.machHist \notin {"none", "ok"}) =>
            /\ outcome.k = "raised"
            /\ hist.postHist = "none"
            /\ hist.obtained = {}

C13_Witness == Done /\ hist.machHist = "busy" /\ outcome.cls = "CuckooVMBusyException"

\* C14: connectivity failures of the machine query are retried less
\* patiently than busy failures: after connectivity failures only, the job
\* does not get to the last attempt that busy failures get to.
C14_ConnectivityGivesUpSooner ==
    (Pending({"cuckoo_query_machines"}) /\ hist.machHist = "connerr") =>
        Attempt < stop_max_attempt_number("cuckoo_query_machines")

\* C15 (as claimed): every status poll, report fetch, pcap fetch and delete
\* names a task identifier that a submission of the job returned, and while
\* every status reply carried another task's identifier the job has acted
\* on none of them.
C15_OwnTaskOnly ==
    /\ Pending(TaskFns) => PendingArg \in hist.obtained
    /\ hist.statusHist = "mismatch" =>
            /\ ~Polled
            /\ cuckoo_task.report = "None"
            /\ ~FailedStatus

\* C16: a pcap request is issued only when the sections of the result hold
\* a "Network Activity" section.
C16_PcapOnlyWithNetwork == InFn("cuckoo_query_pcap") => "Network Activity" \in file_res

C16_Witness == Pending({"cuckoo_query_pcap"}) /\ "Network Activity" \in file_res

\* generate_al_result has returned or raised
Generated == gen.pc = "done"

\* the sections of the result with this title
Sections(title) == {i \in 1..Len(al_result) : al_result[i].title = title}

\* the report of the scenario: one registry-write entry and one HTTP flow
\* to evil.example, nothing else said of it
ScenarioReport ==
    /\ api_report.behavior.present
    /\ api_report.behavior.written = 1
    /\ ~api_report.behavior.keys
    /\ api_report.behavior.clsids = "none"
    /\ api_report.network.present
    /\ api_report.network.http = {"domain"}
    /\ api_report.debug = "absent"
    /\ api_report.signatures = "absent"
    /\ api_report.droidmon = "absent"

\* C17: for the report of the scenario, generate_al_result returns with
\* one "Registry Keys Written" section of 1 line and one "Network Activity"
\* section whose one subsection is the domain flows, tagged
\* network.domain = evil.example.
C17_EndToEnd ==
    (Generated /\ ScenarioReport) =>
        /\ gen.ret = "True"
        /\ Cardinality(Sections("Registry Keys Written (Limit 25)")) = 1
        /\ \A i \in Sections("Registry Keys Written (Limit 25)") : al_result[i].lines = 1
        /\ Cardinality(Sections("Network Activity")) = 1
        /\ \A i \in Sections("Network Activity") :
              /\ al_result[i].subs = <<"Domain Flows">>
              /\ <<"network.domain", "evil.example">> \in al_result[i].tags

\* C18: generate_al_result raises for no report, whatever sub-trees are
\* absent or empty.
C18_PartialReports == gen.ret \in {"none", "True"}

\* C19: for a report without behavior, network and signatures,
\* generate_al_result returns, and apart from the analysis information the
\* result holds the "Analysis Errors" section when the report has errors,
\* and nothing else.
C19_NoSubReports ==
    (/\ Generated
     /\ ~api_report.behavior.present
     /\ ~api_report.network.present
     /\ api_report.signatures = "absent") =>
        /\ gen.ret = "True"
        /\ {al_result[i].title : i \in 1..Len(al_result)} \ {"Analysis Information"} =
              IF api_report.debug = "errors" THEN {"Analysis Errors"} ELSE {}

\* C20: for a report whose class identifiers are on the whitelist,
\* generate_al_result returns with the "Notes" section and without any
\* "Network Activity" or "Signatures" section.
C20_BenignClsids ==
    (Generated /\ api_report.behavior.present /\ api_report.behavior.clsids = "benign") =>
        /\ gen.ret = "True"
        /\ Cardinality(Sections("Notes")) = 1
        /\ Sections("Network Activity") = {}
        /\ Sections("Signatures") = {}


\* process_network has run up to the grouping of the flows
Correlated == local.fn = "process_network" /\ local.pc # "correlate"

\* process_network has returned
NetworkDone == local.fn = "process_network" /\ local.pc = "done" /\ local.ret = "None"

\* the lines of a subsection of the section Network Activity (none when the
\* subsection is not there)
Body(title) == Flatten([i \in 1..Len(local.subs) |-> IF local.subs[i].title = title THEN local.subs[i].body ELSE <<>>])

\* the host has a flow of some protocol among the grouped flows
HasFlows(host) == \E p \in {"udp", "tcp", "smtp", "icmp", "http", "https"} : host \in DOMAIN local.flows[p]

\* C21: once the IP flows are written, every host of the host list that is
\* neither the guest nor on the whitelist and has no flow of any protocol
\* is tagged network.ip, whether or not other hosts have flows.
C21_FlowlessHostEmitted ==
    (local.fn = "process_network" /\ local.pc \in {"domain_flows", "done"}) =>
        \A host \in Range(args.network.hosts) :
            (~skipped(host, args.guest_ip) /\ ~HasFlows(host)) => In(<<"network.ip", host>>, local.tags)

\* the peers of the lines and of the tags network.ip and network.domain
EmittedPeers ==
    {Body("IP Flows")[i].peer : i \in 1..Len(Body("IP Flows"))} \cup
    {Body("Domain Flows")[i].peer : i \in 1..Len(Body("Domain Flows"))} \cup
    {local.tags[i][2] : i \in {j \in 1..Len(local.tags) : local.tags[j][1] \in {"network.ip", "network.domain"}}}

\* C22: no peer of a line of the IP flows or of the domain flows, and no
\* value of a tag network.ip or network.domain, is the guest's address, an
\* address on the whitelist or a domain on the whitelist.
C22_ExcludedPeers ==
    local.fn = "process_network" =>
        \A peer \in EmittedPeers :
            peer # args.guest_ip /\ ~wlist_check_ip(peer) /\ ~wlist_check_domain(peer)

C22_Witness ==
    /\ NetworkDone
    /\ "127.0.0.1" \in DOMAIN local.flows.udp
    /\ "127.0.0.1" \in Range(local.hosts)
    /\ "microsoft.com" \in DOMAIN local.flows.domains
    /\ "microsoft.com" \in DOMAIN local.flows.https
    /\ EmittedPeers # {}

\* C23: among the grouped flows, the extended records merged, the records
\* of one peer and one protocol are pairwise different.
C23_GroupsUnique ==
    Correlated =>
        \A p \in DOMAIN local.flows : \A peer \in DOMAIN local.flows[p] :
            \A i, j \in 1..Len(local.flows[p][peer]) :
                local.flows[p][peer][i] = local.flows[p][peer][j] => i = j

C23_Witness ==
    /\ Correlated
    /\ Len(args.network.tcp) = 2
    /\ args.network.tcp[1] = args.network.tcp[2]
    /\ Len(args.network.http) = 1
    /\ Len(args.network.http_ex) = 1
    /\ args.network.http[1].host = args.network.http_ex[1].host
    /\ Len(local.flows.http[args.network.http[1].host]) = 1

\* the orders in which the records of a list can be inserted
Orders(s) ==
    {[i \in 1..Len(s) |-> s[p[i]]] : p \in {q \in [1..Len(s) -> 1..Len(s)] : \A i, j \in 1..Len(s) : q[i] = q[j] => i = j}}

\* the records of each peer, as a set
FlowSets(proto_data) == [peer \in DOMAIN proto_data |-> Range(proto_data[peer])]

\* C24: the set of the http (https) records of each host is the same in
\* whatever order the canonical and the extended records are inserted, and
\* an extended record that a canonical record of its host equals in uri,
\* port and method, once its uri is rebuilt, is there once.
C24_MergeCommutes ==
    Correlated =>
        /\ \A c \in Orders(args.network.http), e \in Orders(args.network.http_ex) :
               FlowSets(add_ex_data(parse_protocol_data(c, "host", {"port", "uri", "method"}),
                                    parse_protocol_data(e, "host", {"dport", "uri", "method"}),
                                    "http", 80)) = FlowSets(local.flows.http)
        /\ \A c \in Orders(args.network.https), e \in Orders(args.network.https_ex) :
               FlowSets(add_ex_data(parse_protocol_data(c, "host", {"port", "uri", "method"}),
                                    parse_protocol_data(e, "host", {"dport", "uri", "method"}),
                                    "https", 443)) = FlowSets(local.flows.https)
        /\ \A p \in {"http", "https"} : \A host \in DOMAIN local.flows[p] :
               \A c \in Range(args.network[p]) :
                   c.host = host =>
                       Cardinality({i \in 1..Len(local.flows[p][host]) :
                                       local.flows[p][host][i] =
                                           [port |-> c.port, uri |-> c.uri, method |-> c.method]}) = 1

C24_Witness ==
    /\ Correlated
    /\ Len(args.network.http) = 2
    /\ args.network.http[1].host = "evil.example"
    /\ args.network.http[2].host = "evil.example"
    /\ args.network.http[1] # args.network.http[2]
    /\ Len(args.network.http_ex) = 2
    /\ args.network.http_ex[1].host = "evil.example"
    /\ args.network.http_ex[2].host = "evil.example"
    /\ args.network.http_ex[1] # args.network.http_ex[2]
    /\ Len(local.flows.http["evil.example"]) = 2

\* the records of a group, each with its peer in the field it was grouped by
Ungroup(proto_data, group_by) ==
    LET peers == sorted(DOMAIN proto_data)
    IN Flatten([k \in 1..Len(peers) |->
                   [i \in 1..Len(proto_data[peers[k]]) |->
                       [f \in DOMAIN proto_data[peers[k]][i] \cup {group_by} |->
                           IF f = group_by THEN peers[k] ELSE proto_data[peers[k]][i][f]]]])

\* the flow records of a grouping
FlowRecords(flows) ==
    [udp |-> Ungroup(flows.udp, "dst"), tcp |-> Ungroup(flows.tcp, "dst"), smtp |-> Ungroup(flows.smtp, "dst"),
     dns |-> Ungroup(flows.dns, "request"), icmp |-> Ungroup(flows.icmp, "dst"),
     domains |-> Ungroup(flows.domains, "domain"), http |-> Ungroup(flows.http, "host"), http_ex |-> <<>>,
     https |-> Ungroup(flows.https, "host"), https_ex |-> <<>>]

\* C25: grouping the flow records of the grouped flows again gives the
\* same peers, the same protocols and the same records of each group.
C25_CorrelateIdempotent == Correlated => Correlate(FlowRecords(local.flows)) = local.flows

C25_Witness ==
    /\ Correlated
    /\ Len(args.network.http) = 2
    /\ args.network.http[1] = args.network.http[2]
    /\ Len(args.network.http_ex) = 2
    /\ "evil.example" \in DOMAIN local.flows.http
    /\ Len(local.flows.http["evil.example"]) = 2
    /\ Correlate(FlowRecords(local.flows)).http["evil.example"] = local.flows.http["evil.example"]

\* the lines are in the order of their peers and, for one peer, in the order
\* of their protocols
Ordered(lines) ==
    \A i, j \in 1..Len(lines) :
        i < j => \/ Rank(lines[i].peer) < Rank(lines[j].peer)
                 \/ lines[i].peer = lines[j].peer /\ Rank(lines[i].protocol) <= Rank(lines[j].protocol)

\* C26: the lines of the IP flows and of the domain flows are in the
\* lexicographic order of the hosts and of the domains and, for one of
\* them, of the protocols, whatever the order of the records of the report.
C26_OutputOrdered ==
    local.fn = "process_network" => Ordered(Body("IP Flows")) /\ Ordered(Body("Domain Flows"))

C26_Witness ==
    /\ NetworkDone
    /\ args.network.tcp = <<[dst |-> "5.6.7.8", dport |-> 80], [dst |-> "1.2.3.4", dport |-> 80]>>
    /\ args.network.http = <<[host |-> "1.2.3.4", port |-> 80, uri |-> "http://1.2.3.4/a", method |-> "GET"]>>
    /\ Len(Body("IP Flows")) = 3
    /\ Body("IP Flows")[1].protocol = "http"
    /\ Body("IP Flows")[3].peer = "5.6.7.8"

\* the findings of a category of the behavioural summary
FindingsOf(q_name) == {i \in 1..Len(local.al_result) : local.al_result[i].q_name = q_name}

\* C27: once the summary is reported, a category with n > 0 items has one
\* finding, which holds the first min(n, 25) items in the order of the
\* report if the category is capped and all n items if it is not; a
\* category without items has no finding.
C27_CategoryLimits ==
    (local.fn = "process_behavior" /\ local.pc = "done") =>
        \A q \in {"directory_created", "directory_removed", "dll_loaded", "file_deleted", "file_exists",
                  "file_failed", "regkey_written", "command_line", "downloads_file", "file_written", "mutex",
                  "wmi_query"} :
            LET items == args.behavior.summary[q]
                n == Len(items)
                capped == q \notin {"command_line", "downloads_file", "file_written", "mutex", "wmi_query"}
                kept == IF capped /\ n > 25 THEN 25 ELSE n
            IN IF n = 0 THEN FindingsOf(q) = {}
               ELSE /\ Cardinality(FindingsOf(q)) = 1
                    /\ \A i \in FindingsOf(q) : local.al_result[i].lines = SubSeq(items, 1, kept)

C27_Witness ==
    /\ local.fn = "process_behavior"
    /\ local.pc = "done"
    /\ Len(args.behavior.summary["regkey_written"]) = 26
    /\ Len(args.behavior.summary["command_line"]) = 26
    /\ \E i \in FindingsOf("regkey_written") : Len(local.al_result[i].lines) = 25
    /\ \E i \in FindingsOf("command_line") : Len(local.al_result[i].lines) = 26

\* C28: once the signatures are processed, the subsections of the section
\* Signatures are, in the order of the report, one for each signature
\* whose name is not on the denylist (dead_host and has_pdb, among the
\* reported names), the ones the severity table does not know, with the
\* severity 3, included.
C28_SignatureFindings ==
    (local.fn = "process_signatures" /\ local.pc = "done") =>
        LET kept == SelectSeq(args.sigs, LAMBDA s : s.name \notin {"dead_host", "has_pdb"})
        IN /\ Len(local.subs) = Len(kept)
           /\ \A i \in 1..Len(kept) :
                  /\ local.subs[i].title = "Signature: " \o kept[i].name
                  /\ kept[i].name = "zeus_unknown" => local.subs[i].heuristic = 3
           /\ Len(args.sigs) > 0 => local.al_result = <<[title |-> "Signatures", subs |-> local.subs]>>

C28_Witness ==
    /\ local.fn = "process_signatures"
    /\ local.pc = "done"
    /\ Len(args.sigs) = 3
    /\ args.sigs[1].name = "dead_host"
    /\ args.sigs[2].name = "zeus_unknown"
    /\ args.sigs[3].name = "dropper"
    /\ Len(local.al_result[1].subs) = 2

\* C29: once the pass over the archive of the report is over, every file
\* of the archive has had its turn, and once check_dropped is over, every
\* dropped file has had its turn, whatever failed on the way.
C29_FailureIsolated ==
    local.fn = "extract" =>
        /\ local.pc # "report" => local.tried = 1..Len(args.tar_report)
        /\ local.pc = "done" => local.dropped_tried = args.dropped_tar

\* C30: once the pass over the archive of the report is over, a memory
\* dump that the framework rejected as too large is not stored, a finding
\* names it, and every file of the archive has had its turn.
C30_TooLargeReported ==
    (local.fn = "extract" /\ local.pc # "report") =>
        \A i \in local.rejected :
            args.tar_report[i].dir = "memory" =>
                /\ i \notin local.stored
                /\ \E k \in 1..Len(local.file_res) :
                       local.file_res[k] = [title |-> "Extracted file too large to add", file |-> i]
                /\ local.tried = 1..Len(args.tar_report)

\* C38: a file whose type is not identified and whose name has no extension
\* or an unsupported one makes execute return with an empty result, without
\* a job record and without a request to the sandbox.
C38_UnsupportedFileNotScanned ==
    request \in {"unsupported_ext", "no_ext"} =>
        /\ outcome = [k |-> "returned", cls |-> "", msg |-> ""]
        /\ stack = <<>>
        /\ file_res = {}
        /\ ~cuckoo_task.created
        /\ backend = {}
        /\ hist.machHist = "none" /\ hist.postHist = "none" /\ hist.statusHist = "none"
        /\ hist.obtained = {} /\ hist.delIssued = {}

C38_Witness == request = "unsupported_ext" /\ outcome.k = "returned"

\* C39: a DNS flow with an empty answer list, for a domain of the domain
\* list that is not on the whitelist, does not make the normalization of the
\* network records fail: the call returns, the domain is tagged
\* network.domain and the section Network Activity is emitted.
C39_UnansweredQueryReported ==
    (/\ local.fn = "process_network" /\ local.pc = "done"
     /\ \E i \in 1..Len(args.network.domains) : args.network.domains[i].domain = "evil.example"
     /\ \E i \in 1..Len(args.network.dns) : args.network.dns[i].request = "evil.example"
     /\ \A i \in 1..Len(args.network.dns) :
            args.network.dns[i].request = "evil.example" => args.network.dns[i].answers = <<>>)
    => /\ local.ret = "None"
       /\ In(<<"network.domain", "evil.example">>, local.tags)
       /\ \E i \in 1..Len(local.al_result) : local.al_result[i].title = "Network Activity"

\* C33: once a submission of the job has returned a task identifier, the
\* job turns to a new submission POST only in response to a missing report
\* (the JSON report fetch answered 404 after the status reported); no other
\* failure of the polling leads to another submission.
C33_ResubmitOnlyOnMissingReport ==
    [][(/\ hist.obtained # {}
        /\ ~Pending({"cuckoo_submit_file"})
        /\ Pending({"cuckoo_submit_file"})') => hist.missing']_vars

\* C34: when, during poll-for-completion, the backend has no record of the
\* task (the status queries are answered 404 or without a task), the job
\* stops polling after a bounded number of status queries, issues the
\* delete and fails with "Task went missing ...".
C34_MissingTaskStopsPolling ==
    <>[](hist.reportHist = "notask") =>
        <>(/\ outcome = [k |-> "raised", cls |-> "RecoverableError",
                         msg |-> "Task went missing while waiting for cuckoo to analyze file."]
           /\ hist.obtained \subseteq hist.delIssued)

\* C35: when the backend is unreachable after a task identifier has been
\* obtained (from some request on, every request for the task meets a
\* connectivity failure), execute raises a RecoverableError after a delete
\* has been attempted for the task, and the failure is not followed by a
\* submission of the file.
C35_UnreachableIsRecoverable ==
    /\ <>[]hist.unreachable =>
           <>(/\ outcome.k = "raised" /\ outcome.cls = "RecoverableError"
              /\ LatestTask \in hist.delIssued)
    /\ [](hist.unreachable => ~Pending({"cuckoo_submit_file"}))

\* C36: a fetch of the JSON report is outstanding only when the latest
\* status reply, one of poll-for-completion, carried the job's own current
\* task identifier and the status reported (the attempts of one fetch
\* follow one such reply); none is issued on a status pending, running,
\* completed or failed.
C36_ReportFetchedWhenReported ==
    (Pending({"cuckoo_query_report"}) /\ stack[Len(stack)].fmt = "json") => hist.reported

C36_Witness ==
    /\ Pending({"cuckoo_query_report"}) /\ stack[Len(stack)].fmt = "json"
    /\ hist.reported
    /\ cuckoo_task.id = PendingArg

\* the similarity score of members i and j of the archive
Score(i, j) ==
    ssdeep_compare(ssdeep_hash(args.dropped_tar[i].data), ssdeep_hash(args.dropped_tar[j].data))

\* the members handed to add_extracted so far
Emitted == {local.extracted[k] : k \in 1..Len(local.extracted)}

\* member j has none of the exact marks of a file to leave out
NotListed(j) ==
    /\ md5(args.dropped_tar[j].data) # md5(SubmittedData)
    /\ ~wlist_check_hash(md5(args.dropped_tar[j].data))
    /\ ~wlist_check_dropped(args.dropped_tar[j].name)

\* C31 as stated: in every scan mode, no emitted dropped file has the hash
\* of the submitted file, a hash or a name on the whitelist, or a score at
\* or above the threshold against an earlier dropped file of the job.
C31_NoDuplicateEmitted ==
    local.fn = "check_dropped" =>
        \A j \in Emitted :
            /\ NotListed(j)
            /\ \A i \in 1..(j - 1) : Score(i, j) < args.ssdeep_match_pct

\* C31: no emitted dropped file has the hash of the submitted file or a
\* hash or a name on the whitelist; unless the job is a deep scan, none has
\* a score at or above the threshold against an earlier dropped file that
\* was not itself left out as a near copy; in a deep scan no file is left
\* out as a near copy.
C31_NoDuplicateOfAccepted ==
    local.fn = "check_dropped" =>
        /\ \A j \in Emitted :
              /\ NotListed(j)
              /\ ~args.deep_scan =>
                    \A i \in (1..(j - 1)) \ local.skipped : Score(i, j) < args.ssdeep_match_pct
        /\ args.deep_scan => local.skipped = {}

C31_Witness ==
    /\ local.fn = "check_dropped" /\ local.pc = "done" /\ ~args.deep_scan
    /\ Emitted = {1, 3}
    /\ local.skipped = {2}
    /\ Score(2, 3) >= args.ssdeep_match_pct

\* C32: for the same archive, a member left out as a near copy at the
\* configured threshold is also left out at every higher threshold.
C32_MonotonicInThreshold ==
    (local.fn = "check_dropped" /\ local.pc = "done") =>
        \A pct \in Thresholds :
            pct > args.ssdeep_match_pct =>
                local.skipped \subseteq
                    dropped_files(args.dropped_tar, Len(args.dropped_tar), args.deep_scan, pct).skipped

\* C37: a member left out as a near copy has a score at or above the
\* threshold against a member emitted before it; a member that was skipped
\* (hash or name on the whitelist, identical to the submitted file) makes
\* no later member be left out.
C37_SuppressedByEmitted ==
    local.fn = "check_dropped" =>
        \A j \in local.skipped :
            \E i \in Emitted : i < j /\ Score(i, j) >= args.ssdeep_match_pct

====
